----------------------------- MODULE ChainRules -----------------------------
(***************************************************************************)
(* The rules that a header is held to by the headers before it: its time   *)
(* (blockindex.go), its target (difficulty.go) and the rule changes that   *)
(* miners vote for (thresholdstate.go, versionbits.go, with the clocks of  *)
(* chaincfg/deployment_time_frame.go).  The states of a rule change are    *)
(* cached by block, for the deployment and for the warning about a bit     *)
(* nobody expects, and are asked for from the tips of any branch.  The     *)
(* offset of the clock that the peers' clocks suggest (mediantime.go) is a *)
(* job of its own.                                                         *)
(***************************************************************************)
EXTENDS Integers, Sequences, SequencesExt, FiniteSets, FiniteSetsExt, TLC

CONSTANTS
  Nil,
  Tree,                      \* parent of every block 1 .. n; 0 is the genesis block
  Variants,                   \* of every block: how far past the median time it is, and its vote
  Networks,                  \* chain parameters: the rule change deployed, the rule for easy blocks
  MinerConfirmationWindow, RuleChangeActivationThreshold,
  medianTimeBlocks,
  blocksPerRetarget, TargetTimespan, RetargetAdjustmentFactor, PowLimit,
  MinDiffReductionTime,
  Samples, maxMedianTimeEntries, maxAllowedOffsetSecs

VARIABLES
  job,                       \* "tree" or "clock"
  node,                      \* the blocks of the index
  params,                    \* the chain parameters, one of Networks
  cache,                     \* deploymentCaches and warningCaches, of the one deployment and bit
  clock                      \* medianTime

vars == <<job, node, params, cache, clock>>

-----------------------------------------------------------------------------
(* difficulty.go.  A target is a number, and bits its compact form: an exponent and a mantissa
   of three bytes whose highest bit is a sign. *)

Mantissa(compact) == compact % 2^23
Negative(compact) == (compact \div 2^23) % 2 = 1
Exponent(compact) == compact \div 2^24

CompactToBig(compact) ==
  (IF Negative(compact) THEN -1 ELSE 1) *
  (IF Exponent(compact) <= 3 THEN Mantissa(compact) \div 256^(3 - Exponent(compact))
   ELSE Mantissa(compact) * 256^(Exponent(compact) - 3))

NumBytes(n) == Min({k \in 1 .. 4 : n \div 256^(k - 1) < 256})

\* A mantissa whose sign bit is set is shortened by a byte.
Packed(exponent, mantissa) ==
  IF mantissa >= 2^23 THEN (exponent + 1) * 2^24 + mantissa \div 256 ELSE exponent * 2^24 + mantissa

BigToCompact(n) ==
  IF n = 0 THEN 0
  ELSE IF NumBytes(n) <= 3 THEN Packed(NumBytes(n), n * 256^(3 - NumBytes(n)))
  ELSE Packed(NumBytes(n), n \div 256^(NumBytes(n) - 3))

PowLimitBits == BigToCompact(PowLimit)
minRetargetTimespan == TargetTimespan \div RetargetAdjustmentFactor
maxRetargetTimespan == TargetTimespan * RetargetAdjustmentFactor
Limited(target) == IF target > PowLimit THEN PowLimit ELSE target
Clamp(t, low, high) == IF t < low THEN low ELSE IF t > high THEN high ELSE t

\* The target after so many times the largest adjustment as fit the duration.
RECURSIVE Eased(_, _)
Eased(target, duration) ==
  IF duration > 0 /\ target < PowLimit THEN Eased(target * RetargetAdjustmentFactor, duration - maxRetargetTimespan)
  ELSE Limited(target)
calcEasiestDifficulty(bits, duration) ==
  IF params.reduceMinDifficulty /\ duration > MinDiffReductionTime THEN PowLimitBits
  ELSE BigToCompact(Eased(CompactToBig(bits), duration))

\* path is the chain up to the block, so the block at height h is path[h + 1].
Ancestor(b, h) == node[b].path[h + 1]
height(b) == Len(node[b].path) - 1

\* The last block of the interval that was not mined at the lowest difficulty.
findPrevTestNetDifficulty(b) ==
  LET stop == {h \in 0 .. height(b) : h % blocksPerRetarget = 0 \/ node[Ancestor(b, h)].bits # PowLimitBits}
  IN node[Ancestor(b, Max(stop))].bits

Retarget(last, timespan) ==
  BigToCompact(Limited((CompactToBig(last.bits) * Clamp(timespan, minRetargetTimespan, maxRetargetTimespan))
                         \div TargetTimespan))

calcNextRequiredDifficulty(b, newBlockTime) ==
  IF (height(b) + 1) % blocksPerRetarget # 0
  THEN IF ~params.reduceMinDifficulty THEN node[b].bits
       ELSE IF newBlockTime > node[b].timestamp + MinDiffReductionTime THEN PowLimitBits
       ELSE findPrevTestNetDifficulty(b)
  ELSE Retarget(node[b], node[b].timestamp - node[Ancestor(b, height(b) - (blocksPerRetarget - 1))].timestamp)

-----------------------------------------------------------------------------
(* blockindex.go: the median of the times of the block and those before it. *)

\* It depends on the block alone and is kept with it.
Middle(times) == SortSeq(times, <)[Len(times) \div 2 + 1]
Recent(times) == SubSeq(times, Max({1, Len(times) - medianTimeBlocks + 1}), Len(times))
Times(b) == [k \in DOMAIN node[b].path |-> node[node[b].path[k]].timestamp]
CalcPastMedianTime(b) == node[b].past

-----------------------------------------------------------------------------
(* thresholdstate.go, versionbits.go.  A checker is "rule", the deployment, or "warn", the bit. *)

\* A start or an end of 0 is the zero time: always started, never ended.  The clock of the
\* genesis block is an error, which counts as no.
PastMedianTime(b) == IF b = 0 THEN -1 ELSE CalcPastMedianTime(b)
HasStarted(checker, b) ==
  checker = "warn" \/ params.start = 0 \/ PastMedianTime(b) >= params.start
HasEnded(checker, b) ==
  checker # "warn" /\ params.end # 0 /\ PastMedianTime(b) >= params.end
ActivationThreshold(checker) ==
  IF checker # "warn" /\ params.threshold # 0 THEN params.threshold ELSE RuleChangeActivationThreshold
EligibleToActivate(checker, b) ==
  checker = "warn" \/ params.minHeight = 0 \/ height(b) + 1 >= params.minHeight
IsSpeedy(checker) == checker # "warn" /\ (params.minHeight # 0 \/ params.threshold # 0)

\* count is how many blocks of the window that ends in b meet the condition.
thresholdStateTransition(state, checker, b, count) ==
  CASE state \in {"Defined", "Started"} /\ ~IsSpeedy(checker) /\ HasEnded(checker, b) -> "Failed"
    [] state = "Defined" /\ (IsSpeedy(checker) \/ ~HasEnded(checker, b)) ->
         IF HasStarted(checker, b) THEN "Started" ELSE "Defined"
    [] state = "Started" /\ (IsSpeedy(checker) \/ ~HasEnded(checker, b)) ->
         IF count >= ActivationThreshold(checker) THEN "LockedIn"
         ELSE IF IsSpeedy(checker) /\ HasEnded(checker, b) THEN "Failed" ELSE "Started"
    [] state = "LockedIn" -> IF EligibleToActivate(checker, b) THEN "Active" ELSE "LockedIn"
    [] state \in {"Active", "Failed"} -> state

\* The last blocks of the windows up to b, the latest first.
WindowEnds(b) ==
  LET W == MinerConfirmationWindow
      last == height(b) - ((height(b) + 1) % W)
  IN IF b = Nil THEN <<>> ELSE IF height(b) + 1 < W THEN <<>>
     ELSE [k \in 1 .. (last + 1) \div W |-> Ancestor(b, last - (k - 1) * W)]
Window(b) == {Ancestor(b, h) : h \in height(b) - (MinerConfirmationWindow - 1) .. height(b)}
Prev(b) == IF b = 0 THEN Nil ELSE Tree[b]

\* A cache is a function on the blocks it has an entry of; entries are by the hash of the block.
HashOfHeight(b) == Min({a \in DOMAIN node : height(a) = height(b)})
Hash(b) == b
Update(c, b, state) == [k \in DOMAIN c \cup {Hash(b)} |-> IF k = Hash(b) THEN state ELSE c[k]]
Lookup(c, b) == IF Hash(b) \in DOMAIN c THEN c[Hash(b)] ELSE Nil

\* thresholdState goes back to a window whose state is cached, or that had not started.
Needed(checker, ends, c) ==
  Min({k \in 1 .. Len(ends) : Lookup(c, ends[k]) # Nil \/ ~HasStarted(checker, ends[k])} \cup {Len(ends) + 1}) - 1
Base(ends, k, c) ==
  CASE k > Len(ends) -> [state |-> "Defined", c |-> c]
    [] k <= Len(ends) /\ Lookup(c, ends[k]) # Nil -> [state |-> Lookup(c, ends[k]), c |-> c]
    [] OTHER -> [state |-> "Defined", c |-> Update(c, ends[k], "Defined")]
Oldest(ends, k) == Reverse(SubSeq(ends, 1, k))

Moved(acc, state, e) == [acc EXCEPT !.state = state, !.c = Update(@, e, state)]

\* The windows after it, in order.  The deployment counts the blocks that set its bit.
Signals(e) == {n \in Window(e) : node[n].signals}
RuleStep(acc, e) ==
  Moved(acc, thresholdStateTransition(acc.state, "rule", e, Cardinality(Signals(e))), e)
RuleState(ends, k, c) == FoldLeft(RuleStep, Base(ends, k + 1, c), Oldest(ends, k))
deploymentState(b, c) == RuleState(WindowEnds(b), Needed("rule", WindowEnds(b), c), c)

\* The bit is set in the version of the next block while miners vote.
Voting(state) == state \in {"Started", "LockedIn"}

\* The warning counts the blocks that set the bit where calcNextBlockVersion would not have;
\* each of those looks the deployment up, in its own cache.
Counted(a, n) ==
  FoldLeft(LAMBDA x, r : [count |-> x.count + (IF Voting(r.state) THEN 0 ELSE 1), rule |-> r.c],
           a, <<deploymentState(Prev(n), a.rule)>>)
WarnCount(acc, e) ==
  IF acc.state # "Started" THEN [count |-> 0, rule |-> acc.rule]
  ELSE FoldLeft(Counted, [count |-> 0, rule |-> acc.rule], SetToSeq(Signals(e)))
WarnStep(acc, e) ==
  FoldLeft(LAMBDA x, n : Moved([x EXCEPT !.rule = n.rule],
                               thresholdStateTransition(x.state, "warn", e, n.count), e),
           acc, <<WarnCount(acc, e)>>)
WarnState(ends, k, c, rule) ==
  FoldLeft(WarnStep, Base(ends, k + 1, c) @@ [rule |-> rule], Oldest(ends, k))
bitState(b, c, rule) == WarnState(WindowEnds(b), Needed("warn", WindowEnds(b), c), c, rule)

-----------------------------------------------------------------------------
(* mediantime.go.  Samples are offsets, and every source is heard once. *)

NoClock == [knownIDs |-> 0, offsets |-> <<>>, offsetSecs |-> 0, invalidTimeChecked |-> FALSE]
Abs(n) == IF n < 0 THEN -n ELSE n

\* The oldest sample makes room for a new one.
Added(offsets, o) ==
  Append(IF Len(offsets) = maxMedianTimeEntries THEN Tail(offsets) ELSE offsets, o)

\* The offset moves when there are at least five samples and an odd number of them: not any
\* more once the list is full, if it holds an even number.
Adjusted(c, offsets, sorted) ==
  LET median == sorted[Len(sorted) \div 2 + 1] IN
  IF Len(offsets) < 5 \/ Len(offsets) % 2 # 1 THEN [c EXCEPT !.offsets = offsets]
  ELSE IF Abs(median) < maxAllowedOffsetSecs THEN [c EXCEPT !.offsets = offsets, !.offsetSecs = median]
  ELSE [c EXCEPT !.offsets = offsets, !.offsetSecs = 0, !.invalidTimeChecked = TRUE]

AddTimeSample ==
  /\ job = "clock" /\ clock.knownIDs < maxMedianTimeEntries + 2
  /\ \E o \in Samples :
       clock' = Adjusted([clock EXCEPT !.knownIDs = @ + 1], Added(clock.offsets, o),
                         SortSeq(Added(clock.offsets, o), <))
  /\ UNCHANGED <<job, node, params, cache>>

-----------------------------------------------------------------------------
NoCache == [rule |-> <<>>, warn |-> <<>>]

Init ==
  /\ job \in {"tree", "clock"}
  /\ node = (0 :> [path |-> <<0>>, timestamp |-> 1, past |-> 1, signals |-> FALSE,
                   bits |-> PowLimitBits])
  /\ params \in (IF job = "tree" THEN Networks ELSE {Nil})
  /\ cache = NoCache /\ clock = NoClock

\* A header that checkBlockHeaderContext accepts: its target is the one required, and its time
\* is past the median time.
checkBlockHeaderContext ==
  \E b \in DOMAIN Tree \ DOMAIN node :
    /\ job = "tree" /\ 1 .. b - 1 \subseteq DOMAIN node
    /\ \E c \in Variants[b] : \E t \in {CalcPastMedianTime(Tree[b]) + c[1]} :
         node' = node @@ (b :> [path |-> Append(node[Tree[b]].path, b), timestamp |-> t, signals |-> c[2],
                                past |-> Middle(Recent(Append(Times(Tree[b]), t))),
                                bits |-> calcNextRequiredDifficulty(Tree[b], t)])
    /\ UNCHANGED <<job, params, cache, clock>>

\* A validation, a template or an RPC asks for the state after b.
AskDeployment ==
  \E b \in DOMAIN node :
    /\ job = "tree"
    /\ cache' = [cache EXCEPT !.rule = deploymentState(b, @).c]
    /\ UNCHANGED <<job, node, params, clock>>

warnUnknownRuleActivations ==
  \E b \in DOMAIN node :
    /\ job = "tree"
    /\ \E r \in {bitState(Prev(b), cache.warn, cache.rule)} : cache' = [rule |-> r.rule, warn |-> r.c]
    /\ UNCHANGED <<job, node, params, clock>>

\* The node starts again, with the tip of some branch.
initThresholdCaches ==
  \E b \in DOMAIN node \ {Prev(n) : n \in DOMAIN node} :
    /\ job = "tree" /\ cache # NoCache
    /\ \E r \in {bitState(Prev(b), <<>>, <<>>)} :
         cache' = [rule |-> deploymentState(Prev(b), r.rule).c, warn |-> r.c]
    /\ UNCHANGED <<job, node, params, clock>>

Next ==
  \/ checkBlockHeaderContext \/ AskDeployment \/ warnUnknownRuleActivations \/ initThresholdCaches
  \/ AddTimeSample

Spec == Init /\ [][Next]_vars

-----------------------------------------------------------------------------
(* What the rules promise. *)

\* The state of a rule change as BIP 9 and its speedy variant define it: window by window from
\* the first, without a cache and without stopping at a window that had not started.
ByDefinition(checker, b, counts) ==
  FoldLeft(LAMBDA s, e : thresholdStateTransition(s, checker, e, counts[e]), "Defined", Reverse(WindowEnds(b)))
RuleDefined(b) == ByDefinition("rule", b, [e \in DOMAIN node |-> IF height(e) + 1 < MinerConfirmationWindow THEN 0
                                                                ELSE Cardinality(Signals(e))])
Unexpected(e) == {n \in Signals(e) : ~Voting(RuleDefined(Prev(n)))}
WarnDefined(b) == ByDefinition("warn", b, [e \in DOMAIN node |-> IF height(e) + 1 < MinerConfirmationWindow THEN 0
                                                                ELSE Cardinality(Unexpected(e))])

\* Whatever was asked before and on whichever branch, a state that the caches hold is the one
\* the definition gives for that block (thresholdState, Condition of bitConditionChecker).
CachesRight ==
  /\ \A b \in DOMAIN cache.rule : cache.rule[b] = RuleDefined(b)
  /\ \A b \in DOMAIN cache.warn : cache.warn[b] = WarnDefined(b)

\* The median time never goes back along a chain: thresholdState stops at the first window that
\* had not started because of it.
MedianTimeGrows ==
  \A b \in DOMAIN node \ {0} : CalcPastMedianTime(b) >= CalcPastMedianTime(Tree[b])

\* A target is never above the limit, never zero, and its compact form is canonical; a retarget
\* moves it by the adjustment factor at most, up to rounding.
TargetsBounded ==
  \A b \in DOMAIN node :
    LET target == CompactToBig(node[b].bits) IN
    /\ target \in 1 .. PowLimit /\ BigToCompact(target) = node[b].bits
    /\ b # 0 /\ ~params.reduceMinDifficulty =>
         LET before == CompactToBig(node[Tree[b]].bits) IN
         target <= before * RetargetAdjustmentFactor /\ before <= target * (RetargetAdjustmentFactor + 1)

\* The easiest difficulty since a checkpoint admits every block after at most one retarget.
\* It counts the adjustments that fit the time since the checkpoint, of which two retargets can
\* make one more: the first may owe its adjustment to the time before the checkpoint.
EasiestAdmits ==
  \A b \in DOMAIN node : \A c \in ToSet(node[b].path) :
    /\ node[b].timestamp > node[c].timestamp
    /\ height(b) \div blocksPerRetarget <= height(c) \div blocksPerRetarget + 1
    => CompactToBig(node[b].bits)
         <= CompactToBig(calcEasiestDifficulty(node[c].bits, node[b].timestamp - node[c].timestamp))

\* The clock is moved by less than the allowed offset, and only as far as three sources agree.
OffsetBacked ==
  /\ Abs(clock.offsetSecs) < maxAllowedOffsetSecs
  /\ clock.offsetSecs # 0 /\ Len(clock.offsets) % 2 = 1 =>
       \A side \in {-1, 1} :
         2 * Cardinality({k \in DOMAIN clock.offsets : side * clock.offsets[k] >= side * clock.offsetSecs})
           > Len(clock.offsets)

\* The rules for headers, rule changes and the clock, together.
RulesSound == CachesRight /\ MedianTimeGrows /\ TargetsBounded /\ EasiestAdmits /\ OffsetBacked
=============================================================================
