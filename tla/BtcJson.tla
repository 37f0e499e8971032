------------------------------ MODULE BtcJson ------------------------------
(***************************************************************************)
(* Package btcjson: the commands and notifications of the JSON-RPC API,    *)
(* how a command becomes the parameters of a request (MarshalCmd), how     *)
(* the parameters become a command again (UnmarshalCmd) and how the words  *)
(* of a command line become one (NewCmd).                                  *)
(*                                                                         *)
(* A JSON value is its text, and Kind gives what it is.  A field of a      *)
(* command is <<how, type, default>>: a plain field ("req"), a pointer     *)
(* ("ptr") and a pointer with a jsonrpcdefault tag ("def").  "nil" is the  *)
(* nil pointer.  A command is the sequence of the values of its fields.    *)
(***************************************************************************)
EXTENDS Integers, Sequences, FiniteSets, FiniteSetsExt, SequencesExt, TLC

----------------------------------------------------------------------------
(* JSON values and the Go types they unmarshal into. *)

Numerals == {"0", "1", "2", "3", "10", "100", "120", "288", "1000000", "9999999", "10000000"}

Kind(v) ==
  CASE v = "null" -> "null"
    [] v \in Numerals -> "uint"
    [] v = "-1" -> "int"
    [] v = "0.5" -> "float"
    [] v \in {"true", "false"} -> "bool"
    [] v = "[]" -> "[]"
    [] v \in {"[text]", "[hash]", "[address]"} -> "[string]"
    [] v \in {"[{}]", "[{outpoint}]", "[{bad outpoint}]"} -> "[object]"
    [] v \in {"{}", "{amounts}", "{template}", "{proposal}", "{longpoll}"} -> "object"
    [] OTHER -> "string"

(* The kinds of JSON value json.Unmarshal takes for each Go type.  The     *)
(* last three have an UnmarshalJSON method of their own.                   *)
HashOrHeight == {"uint", "int", "float", "string"}
AllowHighFeesOrMaxFeeRate == {"bool", "uint", "int", "float"}
DescriptorRange == {"uint", "int", "float"}

Unmarshals(type) ==
  CASE type = "int" -> {"uint", "int"}
    [] type = "float" -> {"uint", "int", "float"}
    [] type \in {"[string]", "[object]"} -> {type, "[]"}
    [] type = "HashOrHeight" -> HashOrHeight
    [] type = "FeeSetting" -> AllowHighFeesOrMaxFeeRate
    [] type = "DescriptorRange" -> DescriptorRange
    [] OTHER -> {type}

(* The zero value a field keeps when its parameter is null. *)
ZeroValue(type) ==
  CASE type \in {"int", "uint", "float"} -> "0"
    [] type = "bool" -> "false"
    [] type = "string" -> ""
    [] type \in {"[string]", "[object]"} -> "[]"
    [] OTHER -> "{}"

----------------------------------------------------------------------------
(* Commands, and the rules a command must keep to be registered. *)

Req(type) == <<"req", type, "nil">>
Ptr(type) == <<"ptr", type, "nil">>
Def(type, default) == <<"def", type, default>>

Cmd(method, fields) == [method |-> method, fields |-> fields]

Optional(field) == field[1] # "req"

numReqParams(cmd) == Cardinality({i \in DOMAIN cmd.fields : ~Optional(cmd.fields[i])})
maxParams(cmd) == Len(cmd.fields)

(* No plain field follows a pointer, and a default unmarshals into the     *)
(* type of its field.                                                      *)
RegisterCmd(cmd) ==
  \A i \in DOMAIN cmd.fields :
    /\ \A j \in 1 .. i - 1 : Optional(cmd.fields[j]) => Optional(cmd.fields[i])
    /\ cmd.fields[i][1] = "def" =>
         Kind(cmd.fields[i][3]) \in Unmarshals(cmd.fields[i][2])

----------------------------------------------------------------------------
(* From a command to a request and back. *)

(* A middle nil is dropped, so that what follows it moves up. *)
makeParamsDroppingNils(args) == SelectSeq(args, LAMBDA a : a # "nil")

(* The fields up to the last one that is not a nil pointer.  A nil pointer *)
(* before it is sent as null.                                              *)
makeParams(args) ==
  [i \in 1 .. Max({0} \cup {i \in DOMAIN args : args[i] # "nil"}) |->
     IF args[i] = "nil" THEN "null" ELSE args[i]]

checkNumParams(n, cmd) == n >= numReqParams(cmd) /\ n <= maxParams(cmd)

populateDefaults(field) == IF field[1] = "def" THEN field[3] ELSE "nil"

Unmarshalled(field, v) ==
  IF v # "null" THEN v
  ELSE IF Optional(field) THEN "nil"
  ELSE ZeroValue(field[2])

Unmarshallable(cmd, params) ==
  /\ checkNumParams(Len(params), cmd)
  /\ \A i \in DOMAIN params :
       Kind(params[i]) \in {"null"} \cup Unmarshals(cmd.fields[i][2])

UnmarshalCmd(cmd, params) ==
  [i \in 1 .. maxParams(cmd) |->
     IF i <= Len(params) THEN Unmarshalled(cmd.fields[i], params[i])
     ELSE populateDefaults(cmd.fields[i])]

(* A word of a command line as the value of a field.  The word null leaves *)
(* a pointer nil and is taken as it is by a string.                        *)
assignField(field, word) == IF Optional(field) /\ word = "null" THEN "nil" ELSE word

(* A string takes every word; the other types parse it.  A word that is no *)
(* JSON text does not parse into a struct, whatever its UnmarshalJSON      *)
(* takes.                                                                  *)
typesMaybeCompatible(field, word) ==
  \/ Optional(field) /\ word = "null"
  \/ field[2] = "string"
  \/ Kind(word) \in Unmarshals(field[2]) \ {"string"}

NewCmdParses(cmd, words) ==
  /\ checkNumParams(Len(words), cmd)
  /\ \A i \in DOMAIN words : typesMaybeCompatible(cmd.fields[i], words[i])

(* Fields after the last word stay as they are: NewCmd sets no default. *)
NewCmd(cmd, words) ==
  [i \in 1 .. maxParams(cmd) |->
     IF i <= Len(words) THEN assignField(cmd.fields[i], words[i]) ELSE "nil"]

----------------------------------------------------------------------------
(* The commands of each file of the package, in the order of the file: a *)
(* part is named by the first and the last command in it.  First the       *)
(* commands of the chain server.                                           *)

AddNodeToDeriveAddresses == {
  Cmd("addnode", <<Req("string"), Req("string")>>),
  Cmd("createrawtransaction", <<Req("[object]"), Req("object"), Ptr("int")>>),
  Cmd("decoderawtransaction", <<Req("string")>>),
  Cmd("decodescript", <<Req("string")>>),
  Cmd("deriveaddresses", <<Req("string"), Ptr("DescriptorRange")>>)}

FundRawTransactionToGetBlockHeader == {
  Cmd("fundrawtransaction", <<Req("string"), Req("object"), Ptr("bool")>>),
  Cmd("getaddednodeinfo", <<Req("bool"), Ptr("string")>>),
  Cmd("getbestblockhash", <<>>), Cmd("getblock", <<Req("string"), Def("int", "1")>>),
  Cmd("getblockchaininfo", <<>>), Cmd("getblockcount", <<>>),
  Cmd("getblockfilter", <<Req("string"), Ptr("string")>>),
  Cmd("getblockhash", <<Req("int")>>),
  Cmd("getblockheader", <<Req("string"), Def("bool", "true")>>)}

GetBlockStatsCmd == {
  Cmd("getblockstats", <<Req("HashOrHeight"), Ptr("[string]")>>)}

GetBlockTemplateToGetMempoolEntry == {
  Cmd("getblocktemplate", <<Ptr("object")>>),
  Cmd("getcfilter", <<Req("string"), Req("uint")>>),
  Cmd("getcfilterheader", <<Req("string"), Req("uint")>>), Cmd("getchaintips", <<>>),
  Cmd("getchaintxstats", <<Ptr("int"), Ptr("string")>>),
  Cmd("getconnectioncount", <<>>), Cmd("getdescriptorinfo", <<Req("string")>>),
  Cmd("getdifficulty", <<>>), Cmd("getgenerate", <<>>), Cmd("gethashespersec", <<>>),
  Cmd("getinfo", <<>>), Cmd("getmempoolentry", <<Req("string")>>)}

GetMempoolInfoToGetTxOut == {
  Cmd("getmempoolinfo", <<>>), Cmd("getmininginfo", <<>>), Cmd("getnetworkinfo", <<>>),
  Cmd("getnettotals", <<>>),
  Cmd("getnetworkhashps", <<Def("int", "120"), Def("int", "-1")>>),
  Cmd("getnodeaddresses", <<Def("int", "1")>>), Cmd("getpeerinfo", <<>>),
  Cmd("getrawmempool", <<Def("bool", "false")>>),
  Cmd("getrawtransaction", <<Req("string"), Def("int", "0")>>),
  Cmd("gettxout", <<Req("string"), Req("uint"), Def("bool", "true")>>)}

GetTxOutProofToSearchRawTransactions == {
  Cmd("gettxoutproof", <<Req("[string]"), Ptr("string")>>),
  Cmd("gettxoutsetinfo", <<>>), Cmd("getwork", <<Ptr("string")>>),
  Cmd("help", <<Ptr("string")>>), Cmd("invalidateblock", <<Req("string")>>),
  Cmd("ping", <<>>), Cmd("preciousblock", <<Req("string")>>),
  Cmd("reconsiderblock", <<Req("string")>>),
  Cmd("searchrawtransactions", <<Req("string"), Def("int", "1"), Def("int", "0"),
      Def("int", "100"), Def("int", "0"), Def("bool", "false"), Ptr("[string]")>>)}

SendRawTransactionCmd == {
  Cmd("sendrawtransaction", <<Req("string"), Def("FeeSetting", "false")>>)}

SetGenerateToSignMessageWithPrivKey == {
  Cmd("setgenerate", <<Req("bool"), Def("int", "-1")>>),
  Cmd("signmessagewithprivkey", <<Req("string"), Req("string")>>)}

StopToVerifyTxOutProof == {
  Cmd("stop", <<>>), Cmd("submitblock", <<Req("string"), Ptr("object")>>),
  Cmd("uptime", <<>>), Cmd("validateaddress", <<Req("string")>>),
  Cmd("verifychain", <<Def("int", "3"), Def("int", "288")>>),
  Cmd("verifymessage", <<Req("string"), Req("string"), Req("string")>>),
  Cmd("verifytxoutproof", <<Req("string")>>)}

chainSvrCmds ==
  UNION {AddNodeToDeriveAddresses, FundRawTransactionToGetBlockHeader,
    GetBlockStatsCmd, GetBlockTemplateToGetMempoolEntry, GetMempoolInfoToGetTxOut,
    GetTxOutProofToSearchRawTransactions, SendRawTransactionCmd,
    SetGenerateToSignMessageWithPrivKey, StopToVerifyTxOutProof}

----------------------------------------------------------------------------
(* Extensions of btcd. *)

btcdExtCmds == {
  Cmd("node", <<Req("string"), Req("string"), Ptr("string")>>),
  Cmd("debuglevel", <<Req("string")>>),
  Cmd("generatetoaddress", <<Req("int"), Req("string"), Def("int", "1000000")>>),
  Cmd("generate", <<Req("uint")>>), Cmd("getbestblock", <<>>),
  Cmd("getcurrentnet", <<>>), Cmd("getheaders", <<Req("[string]"), Req("string")>>),
  Cmd("version", <<>>)}

----------------------------------------------------------------------------
(* Commands of a wallet server. *)

AddMultisigAddressToEstimatePriority == {
  Cmd("addmultisigaddress", <<Req("int"), Req("[string]"), Ptr("string")>>),
  Cmd("addwitnessaddress", <<Req("string")>>),
  Cmd("createmultisig", <<Req("int"), Req("[string]")>>),
  Cmd("createwallet", <<Req("string"), Def("bool", "false"), Def("bool", "false"),
      Def("string", ""), Def("bool", "false")>>),
  Cmd("dumpprivkey", <<Req("string")>>), Cmd("encryptwallet", <<Req("string")>>),
  Cmd("estimatesmartfee", <<Req("int"), Def("string", "CONSERVATIVE")>>),
  Cmd("estimatefee", <<Req("int")>>), Cmd("estimatepriority", <<Req("int")>>)}

GetAccountToGetReceivedByAddress == {
  Cmd("getaccount", <<Req("string")>>), Cmd("getaccountaddress", <<Req("string")>>),
  Cmd("getaddressesbyaccount", <<Req("string")>>),
  Cmd("getaddressinfo", <<Req("string")>>),
  Cmd("getbalance", <<Ptr("string"), Def("int", "1")>>), Cmd("getbalances", <<>>),
  Cmd("getnewaddress", <<Ptr("string"), Ptr("string")>>),
  Cmd("getrawchangeaddress", <<Ptr("string"), Ptr("string")>>),
  Cmd("getreceivedbyaccount", <<Req("string"), Def("int", "1")>>),
  Cmd("getreceivedbyaddress", <<Req("string"), Def("int", "1")>>)}

GetTransactionToListReceivedByAccount == {
  Cmd("gettransaction", <<Req("string"), Def("bool", "false")>>),
  Cmd("getwalletinfo", <<>>), Cmd("backupwallet", <<Req("string")>>),
  Cmd("unloadwallet", <<Ptr("string")>>), Cmd("loadwallet", <<Req("string")>>),
  Cmd("importprivkey", <<Req("string"), Ptr("string"), Def("bool", "true")>>),
  Cmd("keypoolrefill", <<Def("uint", "100")>>),
  Cmd("listaccounts", <<Def("int", "1")>>), Cmd("listaddressgroupings", <<>>),
  Cmd("listlockunspent", <<>>),
  Cmd("listreceivedbyaccount", <<Def("int", "1"), Def("bool", "false"), Def("bool", "false")>>)}

ListReceivedByAddressToSendFrom == {
  Cmd("listreceivedbyaddress", <<Def("int", "1"), Def("bool", "false"), Def("bool", "false")>>),
  Cmd("listsinceblock", <<Ptr("string"), Def("int", "1"), Def("bool", "false")>>),
  Cmd("listtransactions", <<Ptr("string"), Def("int", "10"), Def("int", "0"), Def("bool",
      "false")>>),
  Cmd("listunspent", <<Def("int", "1"), Def("int", "9999999"), Ptr("[string]")>>),
  Cmd("lockunspent", <<Req("bool"), Req("[object]")>>),
  Cmd("move", <<Req("string"), Req("string"), Req("float"), Def("int", "1"), Ptr("string")>>),
  Cmd("sendfrom", <<Req("string"), Req("string"), Req("float"), Def("int", "1"),
      Ptr("string"), Ptr("string")>>)}

SendManyToSignRawTransaction == {
  Cmd("sendmany", <<Req("string"), Req("object"), Def("int", "1"), Ptr("string")>>),
  Cmd("sendtoaddress", <<Req("string"), Req("float"), Ptr("string"), Ptr("string")>>),
  Cmd("setaccount", <<Req("string"), Req("string")>>),
  Cmd("settxfee", <<Req("float")>>),
  Cmd("signmessage", <<Req("string"), Req("string")>>),
  Cmd("signrawtransaction", <<Req("string"), Ptr("[object]"), Ptr("[string]"),
      Def("string", "ALL")>>)}

SignRawTransactionWithWalletToWalletPassphraseChange == {
  Cmd("signrawtransactionwithwallet", <<Req("string"), Ptr("[object]"), Def("string", "ALL")>>),
  Cmd("walletlock", <<>>), Cmd("walletpassphrase", <<Req("string"), Req("int")>>),
  Cmd("walletpassphrasechange", <<Req("string"), Req("string")>>)}

ImportMultiCmd == {
  Cmd("importmulti", <<Req("[object]"), Ptr("object")>>)}

WalletCreateFundedPsbtToWalletProcessPsbt == {
  Cmd("walletcreatefundedpsbt", <<Req("[object]"), Req("[object]"), Ptr("uint"),
      Ptr("object"), Ptr("bool")>>),
  Cmd("walletprocesspsbt", <<Req("string"), Def("bool", "true"), Def("string", "ALL"),
      Ptr("bool")>>)}

walletSvrCmds ==
  UNION {AddMultisigAddressToEstimatePriority, GetAccountToGetReceivedByAddress,
    GetTransactionToListReceivedByAccount, ListReceivedByAddressToSendFrom,
    SendManyToSignRawTransaction, SignRawTransactionWithWalletToWalletPassphraseChange,
    ImportMultiCmd, WalletCreateFundedPsbtToWalletProcessPsbt}

----------------------------------------------------------------------------
(* Extensions of a wallet server. *)

btcwalletExtCmds == {
  Cmd("createnewaccount", <<Req("string")>>), Cmd("dumpwallet", <<Req("string")>>),
  Cmd("importaddress", <<Req("string"), Req("string"), Def("bool", "true")>>),
  Cmd("importpubkey", <<Req("string"), Def("bool", "true")>>),
  Cmd("importwallet", <<Req("string")>>),
  Cmd("renameaccount", <<Req("string"), Req("string")>>)}

----------------------------------------------------------------------------
(* Commands of the chain server that need a websocket. *)

AuthenticateToStopNotifyReceived == {
  Cmd("authenticate", <<Req("string"), Req("string")>>), Cmd("notifyblocks", <<>>),
  Cmd("stopnotifyblocks", <<>>),
  Cmd("notifynewtransactions", <<Def("bool", "false")>>), Cmd("session", <<>>),
  Cmd("stopnotifynewtransactions", <<>>), Cmd("notifyreceived", <<Req("[string]")>>),
  Cmd("loadtxfilter", <<Req("bool"), Req("[string]"), Req("[object]")>>),
  Cmd("notifyspent", <<Req("[object]")>>),
  Cmd("stopnotifyreceived", <<Req("[string]")>>)}

StopNotifySpentToRescanBlocks == {
  Cmd("stopnotifyspent", <<Req("[object]")>>),
  Cmd("rescan", <<Req("string"), Req("[string]"), Req("[object]"), Ptr("string")>>),
  Cmd("rescanblocks", <<Req("[string]")>>)}

chainSvrWsCmds ==
  UNION {AuthenticateToStopNotifyReceived, StopNotifySpentToRescanBlocks}

----------------------------------------------------------------------------
(* Commands of a wallet server that need a websocket. *)

walletSvrWsCmds == {
  Cmd("createencryptedwallet", <<Req("string")>>),
  Cmd("exportwatchingwallet", <<Ptr("string"), Def("bool", "false")>>),
  Cmd("getunconfirmedbalance", <<Ptr("string")>>),
  Cmd("listaddresstransactions", <<Req("[string]"), Ptr("string")>>),
  Cmd("listalltransactions", <<Ptr("string")>>),
  Cmd("recoveraddresses", <<Req("string"), Req("int")>>), Cmd("walletislocked", <<>>)}

----------------------------------------------------------------------------
(* Commands about ZMQ. *)

zmqSvrCmds == {
  Cmd("getzmqnotifications", <<>>)}

----------------------------------------------------------------------------
(* Notifications of the chain server. *)

BlockConnectedToRescanFinished == {
  Cmd("blockconnected", <<Req("string"), Req("int"), Req("int")>>),
  Cmd("blockdisconnected", <<Req("string"), Req("int"), Req("int")>>),
  Cmd("filteredblockconnected", <<Req("int"), Req("string"), Req("[string]")>>),
  Cmd("filteredblockdisconnected", <<Req("int"), Req("string")>>),
  Cmd("recvtx", <<Req("string"), Ptr("object")>>),
  Cmd("redeemingtx", <<Req("string"), Ptr("object")>>),
  Cmd("rescanfinished", <<Req("string"), Req("int"), Req("int")>>)}

RescanProgressToRelevantTxAccepted == {
  Cmd("rescanprogress", <<Req("string"), Req("int"), Req("int")>>),
  Cmd("txaccepted", <<Req("string"), Req("float")>>),
  Cmd("txacceptedverbose", <<Req("object")>>),
  Cmd("relevanttxaccepted", <<Req("string")>>)}

chainSvrWsNtfns ==
  UNION {BlockConnectedToRescanFinished, RescanProgressToRelevantTxAccepted}

----------------------------------------------------------------------------
(* Notifications of a wallet server. *)

walletSvrWsNtfns == {
  Cmd("accountbalance", <<Req("string"), Req("float"), Req("bool")>>),
  Cmd("btcdconnected", <<Req("bool")>>), Cmd("walletlockstate", <<Req("bool")>>),
  Cmd("newtx", <<Req("string"), Req("object")>>)}

----------------------------------------------------------------------------
(* Every registered type. *)

Commands ==
  UNION {chainSvrCmds, btcdExtCmds, walletSvrCmds, btcwalletExtCmds, chainSvrWsCmds,
      walletSvrWsCmds, zmqSvrCmds, chainSvrWsNtfns, walletSvrWsNtfns}

(* The command registered for a method: methodToConcreteType. *)
CommandOf(method) == CHOOSE c \in Commands : c.method = method

(* No method is registered twice, and every type keeps the rules, or the   *)
(* package panics when the program starts.                                 *)
MustRegisterCmd ==
  /\ \A c \in Commands : RegisterCmd(c)
  /\ \A c, d \in Commands : c.method = d.method => c = d

============================================================================
