----------------------------- MODULE AddrManager -----------------------------
(***************************************************************************)
(* The address manager (addrmgr/addrmanager.go).  An address that was heard   *)
(* of is in one or more of the new buckets, one that was connected to is in   *)
(* a tried bucket.  Every method holds the lock.  The hashes that choose      *)
(* buckets are constants; which entry of a bucket is the oldest, and which    *)
(* are bad, depends on times that are left out, so any may be.  The manager   *)
(* is saved to a file now and then, and the process can end at any time; the  *)
(* file can also be damaged so that it still parses.                          *)
(***************************************************************************)
EXTENDS Integers, FiniteSets

CONSTANTS
  Addrs, Sources,
  NewBuckets, TriedBuckets,
  NewBucket,             \* getNewBucket, of an address and a source
  TriedBucket,           \* getTriedBucket
  newBucketSize, triedBucketSize, newBucketsPerAddress,
  MaxStarts,             \* a bound on the starts of the process
  None

VARIABLES
  addrIndex,             \* the source of every address in the index, None for others
  refs, tried,           \* of the KnownAddress in the index
  addrNew, addrTried,
  nNew, nTried,
  file,                  \* what the peers file holds, None if there is none
  damaged,               \* history: the file was damaged once
  starts

tables == <<addrIndex, refs, tried, addrNew, addrTried, nNew, nTried>>
vars == <<tables, file, damaged, starts>>

Known == {a \in Addrs : addrIndex[a] # None}

New(index, new, triedBuckets, n, t) ==
  /\ addrIndex' = index
  /\ addrNew' = new /\ addrTried' = triedBuckets
  /\ refs' = [a \in Addrs |-> Cardinality({b \in NewBuckets : a \in new[b]})]
  /\ tried' = [a \in Addrs |-> \E b \in TriedBuckets : a \in triedBuckets[b]]
  /\ nNew' = n /\ nTried' = t

Empty(n, t) ==
  New([a \in Addrs |-> None], [b \in NewBuckets |-> {}], [b \in TriedBuckets |-> {}], n, t)

Init ==
  /\ addrIndex = [a \in Addrs |-> None]
  /\ refs = [a \in Addrs |-> 0] /\ tried = [a \in Addrs |-> FALSE]
  /\ addrNew = [b \in NewBuckets |-> {}] /\ addrTried = [b \in TriedBuckets |-> {}]
  /\ nNew = 0 /\ nTried = 0 /\ file = None /\ damaged = FALSE /\ starts = 1

-----------------------------------------------------------------------------
\* expireNew: the entries in R leave bucket b, and with their last reference the
\* index.  R is what is bad, and the oldest of the others.
Expired(b) == {R \in SUBSET addrNew[b] :
                 \E bad \in SUBSET addrNew[b] :
                   IF bad = addrNew[b] THEN R = bad
                   ELSE \E oldest \in addrNew[b] \ bad : R = bad \cup {oldest}}
LastRefs(R) == {a \in R : refs[a] = 1}

Enter(a, b, R, index, n) ==
  /\ addrIndex' = [x \in Addrs |-> IF x \in LastRefs(R) THEN None ELSE index[x]]
  /\ refs' = [x \in Addrs |-> refs[x] - (IF x \in R THEN 1 ELSE 0) + (IF x = a THEN 1 ELSE 0)]
  /\ addrNew' = [addrNew EXCEPT ![b] = (@ \ R) \cup {a}]
  /\ nNew' = n - Cardinality(LastRefs(R))
  /\ UNCHANGED <<tried, addrTried, nTried>>

\* An address that is known enters another bucket by a chance of one in twice the
\* number of its references; the chance of none panics.
updateAddress(a, src) ==
  LET b == NewBucket[a, src]
      isNew == a \notin Known
      index == IF isNew THEN [addrIndex EXCEPT ![a] = src] ELSE addrIndex
      n == IF isNew THEN nNew + 1 ELSE nNew
  IN /\ isNew \/ (~tried[a] /\ refs[a] # newBucketsPerAddress)
     /\ a \notin addrNew[b]
     /\ IF Cardinality(addrNew[b]) > newBucketSize
        THEN \E R \in Expired(b) : Enter(a, b, R, index, n)
        ELSE Enter(a, b, {}, index, n)
     /\ UNCHANGED <<file, damaged, starts>>

\* An address that was connected to moves to its tried bucket.  If that is full the
\* oldest entry goes back to a new bucket: its own, or the one that is now free.
Good(a) ==
  LET b == TriedBucket[a]
      Old == {x \in NewBuckets : a \in addrNew[x]}
      oldBucket == CHOOSE x \in Old : \A y \in Old : x <= y
      without == [x \in NewBuckets |-> addrNew[x] \ {a}]
  IN /\ a \in Known /\ ~tried[a]
     /\ UNCHANGED <<addrIndex, file, damaged, starts>>
     /\ IF Old = {}
        THEN nNew' = nNew - 1 /\ UNCHANGED <<refs, tried, addrNew, addrTried, nTried>>
        ELSE IF Cardinality(addrTried[b]) < triedBucketSize
        THEN /\ refs' = [refs EXCEPT ![a] = @ - Cardinality(Old)]
             /\ addrNew' = without /\ nNew' = nNew - 1
             /\ tried' = [tried EXCEPT ![a] = TRUE]
             /\ addrTried' = [addrTried EXCEPT ![b] = @ \cup {a}] /\ nTried' = nTried + 1
        ELSE \E rmka \in addrTried[b] :
             LET own == NewBucket[rmka, addrIndex[rmka]]
                 newBucket == IF Cardinality(without[own]) >= newBucketSize THEN oldBucket ELSE own
             IN /\ refs' = [refs EXCEPT ![a] = @ - Cardinality(Old), ![rmka] = @ + 1]
                /\ tried' = [tried EXCEPT ![a] = TRUE, ![rmka] = FALSE]
                /\ addrNew' = [without EXCEPT ![newBucket] = @ \cup {rmka}]
                /\ addrTried' = [addrTried EXCEPT ![b] = (@ \ {rmka}) \cup {a}]
                /\ UNCHANGED <<nNew, nTried>>

-----------------------------------------------------------------------------
\* The file.

savePeers ==
  /\ file' = [index |-> addrIndex, new |-> addrNew, tried |-> addrTried]
  /\ UNCHANGED <<tables, damaged, starts>>

\* An address of the file's list is lost.
Damage ==
  /\ file # None /\ ~damaged /\ damaged' = TRUE
  /\ \E a \in Addrs : file.index[a] # None /\ file' = [file EXCEPT !.index[a] = None]
  /\ UNCHANGED <<tables, starts>>

\* deserializePeers counts while it reads the buckets, and fails at an address it
\* does not know, or at the end at one that is new and tried or neither.  loadPeers
\* then removes the file and resets the tables, but not the counts.
InNew(a) == \E b \in NewBuckets : a \in file.new[b]
InTried(a) == \E b \in TriedBuckets : a \in file.tried[b]
Sound(a) == /\ InNew(a) \/ InTried(a) => file.index[a] # None
            /\ file.index[a] # None => (InNew(a) # InTried(a))
Saved == {a \in Addrs : file.index[a] # None}
CountNew == Cardinality({a \in Saved : InNew(a)})
CountTried == Cardinality({a \in Saved : InTried(a)})
\* The counts by the time the load fails, when the buckets refer to what is known.
Restart ==
  /\ starts < MaxStarts /\ starts' = starts + 1
  /\ UNCHANGED damaged
  /\ IF file = None THEN Empty(0, 0) /\ UNCHANGED file
     ELSE IF \A a \in Addrs : Sound(a)
     THEN New(file.index, file.new, file.tried, CountNew, CountTried) /\ UNCHANGED file
     ELSE /\ file' = None
          /\ \E n \in 0 .. CountNew, t \in 0 .. CountTried :
               /\ t > 0 => n = CountNew
               /\ (\A a \in Addrs : InNew(a) \/ InTried(a) => a \in Saved) =>
                    n = CountNew /\ t = CountTried
               /\ Empty(n, t)

Next ==
  \/ \E a \in Addrs, src \in Sources : updateAddress(a, src)
  \/ \E a \in Addrs : Good(a)
  \/ savePeers \/ Damage \/ Restart

Spec == Init /\ [][Next]_vars

-----------------------------------------------------------------------------
\* numAddresses is the number of known addresses ("numAddresses returns the number
\* of addresses known to the address manager.", addrmanager.go:643); GetAddress
\* looks for a bucket that is not empty, with the lock held, for as long as it is
\* not zero.
AddressesCounted ==
  nNew = Cardinality({a \in Addrs : refs[a] > 0}) /\ nTried = Cardinality({a \in Addrs : tried[a]})

=============================================================================
