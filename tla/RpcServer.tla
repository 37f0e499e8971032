----------------------------- MODULE RpcServer -----------------------------
(***************************************************************************)
(* The node's RPC server: a request is parsed into a command and served by *)
(* the handler of its method, over HTTP POST (processRequest) or over a    *)
(* websocket (inHandler, serviceRequest).  One call is followed at a time, *)
(* from the request to the reply.                                          *)
(*                                                                         *)
(* What a handler finds in the chain, the pool, the indexes or the miner   *)
(* is a free choice; what it tests of its command, in which order, and     *)
(* what kind of result it returns are the code's.  A reply is an error and *)
(* its code, or a JSON kind and what the value holds.                      *)
(***************************************************************************)
EXTENDS BtcJson

VARIABLES
  conf,       \* the session: server, transport, user and client settings
  phase,      \* "idle", "sent", "parsed", "answered", "silent" or "done"
  call,       \* the call the client made: future, method and arguments
  params,     \* the parameters of the request
  fields,     \* the fields of the command the server parsed
  reply,      \* the server's reply
  outcome,    \* what the client's Receive returned
  filterData  \* does the websocket client have a transaction filter?

rpcVars == <<conf, phase, call, params, fields, reply, outcome, filterData>>

----------------------------------------------------------------------------
(* Replies. *)

Err(code) == <<"error", code>>
Str(what) == <<"string", what>>
Obj(struct) == <<"object", struct>>
Arr(elem) == <<"array", elem>>
Dict(struct) == <<"map", struct>>
Num(kind) == <<kind, "">>
Bool == <<"bool", "">>
Null == <<"null", "">>

(* An error that is no RPCError, as the client is told of it. *)
PlainErr == Err(IF conf.post THEN "InvalidRequest" ELSE "Internal")

(* A nil pointer is dereferenced: the handler panics. *)
Panic == <<"panic", "">>

Field(i) == fields[i]

(* The handler's tests in the order it makes them: the first that holds    *)
(* gives the replies it can make.                                          *)
FirstOf(cases) == cases[CHOOSE i \in DOMAIN cases : cases[i][1] /\ \A j \in 1 .. i - 1 : ~cases[j][1]][2]

Replies(r) ==
  /\ phase' = "answered"
  /\ reply' = r
  /\ UNCHANGED <<conf, call, params, fields, outcome, filterData>>

When(test, replies) == <<test, replies>>
Otherwise(replies) == <<TRUE, replies>>

Answer(cases) == \E r \in FirstOf(cases) : Replies(r)

(* chainhash.NewHashFromStr and btcutil.DecodeAddress: the empty string is *)
(* the zero hash and no address.                                           *)
IsHash(v) == v \in {"hash", ""}
IsAddress(v) == v = "address"

(* A string of hexadecimal digits, and what it deserializes into. *)
IsHex(v) == v \in {"", "hash", "hex", "tx", "block", "header"}

----------------------------------------------------------------------------
(* Which method is served how. *)

rpcHandlers == {"addnode", "createrawtransaction", "debuglevel",
  "decoderawtransaction", "decodescript", "estimatefee", "generate",
  "getaddednodeinfo", "getbestblock", "getbestblockhash", "getblock",
  "getblockchaininfo", "getblockcount", "getblockhash", "getblockheader",
  "getblocktemplate", "getcfilter", "getcfilterheader", "getconnectioncount",
  "getcurrentnet", "getdifficulty", "getgenerate", "gethashespersec",
  "getheaders", "getinfo", "getmempoolinfo", "getmininginfo", "getnettotals",
  "getnetworkhashps", "getnodeaddresses", "getpeerinfo", "getrawmempool",
  "getrawtransaction", "gettxout", "help", "node", "ping",
  "searchrawtransactions", "sendrawtransaction", "setgenerate",
  "signmessagewithprivkey", "stop", "submitblock", "uptime",
  "validateaddress", "verifychain", "verifymessage", "version"}

rpcAskWallet == {"addmultisigaddress", "backupwallet",
  "createencryptedwallet", "createmultisig", "dumpprivkey", "dumpwallet",
  "encryptwallet", "getaccount", "getaccountaddress",
  "getaddressesbyaccount", "getbalance", "getnewaddress",
  "getrawchangeaddress", "getreceivedbyaccount", "getreceivedbyaddress",
  "gettransaction", "gettxoutsetinfo", "getunconfirmedbalance",
  "getwalletinfo", "importprivkey", "importwallet", "keypoolrefill",
  "listaccounts", "listaddressgroupings", "listlockunspent",
  "listreceivedbyaccount", "listreceivedbyaddress", "listsinceblock",
  "listtransactions", "listunspent", "lockunspent", "move", "sendfrom",
  "sendmany", "sendtoaddress", "setaccount", "settxfee", "signmessage",
  "signrawtransaction", "walletlock", "walletpassphrase",
  "walletpassphrasechange"}

rpcUnimplemented == {"estimatepriority", "getchaintips", "getmempoolentry",
  "getnetworkinfo", "getwork", "invalidateblock", "preciousblock",
  "reconsiderblock"}

rpcLimited == {"createrawtransaction", "decoderawtransaction",
  "decodescript", "estimatefee", "getbestblock", "getbestblockhash",
  "getblock", "getblockcount", "getblockhash", "getblockheader",
  "getcfilter", "getcfilterheader", "getcurrentnet", "getdifficulty",
  "getheaders", "getinfo", "getnettotals", "getnetworkhashps",
  "getrawmempool", "getrawtransaction", "gettxout", "help", "loadtxfilter",
  "notifyblocks", "notifynewtransactions", "notifyreceived", "notifyspent",
  "rescan", "rescanblocks", "searchrawtransactions", "sendrawtransaction",
  "session", "submitblock", "uptime", "validateaddress", "verifymessage",
  "version"}

wsHandlers == {"help", "loadtxfilter", "notifyblocks",
  "notifynewtransactions", "notifyreceived", "notifyspent", "rescan",
  "rescanblocks", "session", "stopnotifyblocks", "stopnotifynewtransactions",
  "stopnotifyreceived", "stopnotifyspent"}

handleAskWallet == Err("NoWallet")
handleUnimplemented == Err("Unimplemented")

Serving(method) ==
  /\ phase = "parsed"
  /\ conf.server = "node"
  /\ call.method = method
  /\ conf.post \/ method \notin wsHandlers

ServingWs(method) ==
  /\ phase = "parsed"
  /\ conf.server = "node"
  /\ call.method = method
  /\ ~conf.post

(* UnmarshalCmd of the request, with the error the client is told. *)
parseCmd ==
  IF \A c \in Commands : c.method # call.method THEN Err("MethodNotFound")
  ELSE IF ~Unmarshallable(CommandOf(call.method), params) THEN Err("InvalidParams")
  ELSE Null

Parsed(err) ==
  IF err # Null THEN Replies(err)
  ELSE /\ phase' = "parsed"
       /\ fields' = UnmarshalCmd(CommandOf(call.method), params)
       /\ UNCHANGED <<conf, call, params, reply, outcome, filterData>>

(* Over HTTP POST a limited user is told of a method it may not call. *)
processRequest ==
  /\ phase = "sent" /\ conf.server = "node" /\ conf.post
  /\ IF ~conf.isAdmin /\ call.method \notin rpcLimited
       THEN Replies(Err("Internal"))
       ELSE Parsed(parseCmd)

(* Over a websocket it is not: the reply is marshalled with an empty       *)
(* version, which MarshalResponse refuses, and the request is dropped.     *)
inHandler ==
  /\ phase = "sent" /\ conf.server = "node" /\ ~conf.post
  /\ IF parseCmd = Null /\ ~conf.isAdmin /\ call.method \notin rpcLimited
       THEN /\ phase' = "silent"
            /\ UNCHANGED <<conf, call, params, fields, reply, outcome, filterData>>
       ELSE Parsed(parseCmd)

(* A method without a handler: the wallet's, one the server does not       *)
(* implement, or none of its own.                                          *)
standardCmdResult ==
  /\ phase = "parsed" /\ conf.server = "node"
  /\ call.method \notin rpcHandlers \cup (IF conf.post THEN {} ELSE wsHandlers)
  /\ Replies(IF call.method \in rpcAskWallet THEN handleAskWallet
             ELSE IF call.method \in rpcUnimplemented THEN handleUnimplemented
             ELSE Err("MethodNotFound"))

(* The usage of all methods, or the help of one. *)
Helps(known) ==
  Answer(<<When(Field(1) \in known \cup {"nil", ""}, {Str("text")}),
           Otherwise({Err("InvalidParameter")})>>)

----------------------------------------------------------------------------
(* The standard handlers, in the order of rpcserver.go. *)

handleAddNode ==
  /\ Serving("addnode")
  /\ Answer(<<When(Field(2) \notin {"add", "remove", "onetry"}, {Err("InvalidParameter")}),
              Otherwise({Err("InvalidParameter"), Null})>>)

(* A peer is named by its number or its address; what is neither can still *)
(* be looked up by connect.                                                *)
handleNode ==
  /\ Serving("node")
  /\ Answer(<<When(Field(1) \in {"disconnect", "remove"} /\ Field(2) \notin {"id", "address"},
                   {Err("InvalidParameter")}),
              When(Field(1) \in {"disconnect", "remove"},
                   {Err("Misc"), Err("InvalidParameter"), Null}),
              When(Field(1) # "connect" \/ Field(3) \notin {"nil", "perm", "temp"},
                   {Err("InvalidParameter")}),
              Otherwise({Err("InvalidParameter"), Null})>>)

handleCreateRawTransaction ==
  /\ Serving("createrawtransaction")
  /\ Answer(<<When(Field(3) = "-1", {Err("InvalidParameter")}),
              When(Field(1) = "[{bad outpoint}]", {Err("DecodeHexString")}),
              When(Field(2) = "{amounts}",
                   {Err("Type"), Err("InvalidAddressOrKey"), Err("Internal"), Str("tx")}),
              Otherwise({Str("tx")})>>)

handleDebugLevel ==
  /\ Serving("debuglevel")
  /\ Answer(<<When(Field(1) = "show", {Str("text")}),
              Otherwise({Err("InvalidParams"), Str("text")})>>)

(* The version of a transaction is signed, and so is the field it is       *)
(* returned in.                                                            *)
handleDecodeRawTransaction ==
  /\ Serving("decoderawtransaction")
  /\ Answer(<<When(~IsHex(Field(1)), {Err("DecodeHexString")}),
              When(Field(1) # "tx", {Err("Deserialization")}),
              Otherwise({Obj("TxRawDecodeResult")})>>)

handleDecodeScript ==
  /\ Serving("decodescript")
  /\ Answer(<<When(~IsHex(Field(1)), {Err("DecodeHexString")}),
              Otherwise({Err("Internal"), Obj("DecodeScriptResult")})>>)

handleEstimateFee ==
  /\ Serving("estimatefee")
  /\ Answer(<<When(Field(1) \in {"0", "-1"}, {PlainErr}),
              Otherwise({PlainErr, Num("float")})>>)

handleGenerate ==
  /\ Serving("generate")
  /\ Answer(<<When(Field(1) = "0", {Err("Internal"), Err("Difficulty")}),
              Otherwise({Err("Internal"), Err("Difficulty"), Arr("hash")})>>)

handleGetAddedNodeInfo ==
  /\ Serving("getaddednodeinfo")
  /\ \E found \in BOOLEAN :
       Answer(<<When(Field(2) # "nil" /\ ~found, {Err("ClientNodeNotAdded")}),
                When(Field(1) = "false", {Arr("string")}),
                Otherwise({Arr("GetAddedNodeInfoResult")})>>)

handleGetBestBlock == Serving("getbestblock") /\ Replies(Obj("GetBestBlockResult"))
handleGetBestBlockHash == Serving("getbestblockhash") /\ Replies(Str("hash"))

(* The verbosity is read without a test for nil once the block is found    *)
(* and it is not 0.                                                        *)
handleGetBlock ==
  /\ Serving("getblock")
  /\ Answer(<<When(~IsHash(Field(1)), {Err("DecodeHexString")}),
              When(Field(2) = "0", {Err("BlockNotFound"), Str("block")}),
              When(Field(2) = "nil", {Err("BlockNotFound"), Err("Internal"), Panic}),
              Otherwise({Err("BlockNotFound"), Err("Internal"), Obj("GetBlockVerboseResult")})>>)

handleGetBlockChainInfo ==
  /\ Serving("getblockchaininfo")
  /\ Answer(<<Otherwise({Err("Internal"), Obj("GetBlockChainInfoResult")})>>)

handleGetBlockCount == Serving("getblockcount") /\ Replies(Num("int"))

handleGetBlockHash ==
  /\ Serving("getblockhash")
  /\ Answer(<<Otherwise({Err("OutOfRange"), Str("hash")})>>)

handleGetBlockHeader ==
  /\ Serving("getblockheader")
  /\ Answer(<<When(~IsHash(Field(1)), {Err("DecodeHexString")}),
              When(Field(2) = "false", {Err("BlockNotFound"), Err("Internal"), Str("header")}),
              Otherwise({Err("BlockNotFound"), Err("Internal"),
                         Obj("GetBlockHeaderVerboseResult")})>>)

(* Without a request or a mode a template is asked for.  A client that     *)
(* names the last template it saw waits for the next one, and is let go if *)
(* its connection closes.                                                  *)
handleGetBlockTemplateRequest(request) ==
  {Err("Internal"), Err("ClientNotConnected"), Err("ClientInInitialDownload"),
   Err("OutOfRange"), Obj("GetBlockTemplateResult")}
    \cup (IF request = "{longpoll}" THEN {PlainErr} ELSE {})

(* A block that would be accepted is answered with null, a rejected one    *)
(* with the reason.                                                        *)
handleGetBlockTemplateProposal ==
  {Err("Type"), Err("Deserialization"), Err("Verify"), Str("text"), Null}

handleGetBlockTemplate ==
  /\ Serving("getblocktemplate")
  /\ Answer(<<When(Field(1) = "{proposal}", handleGetBlockTemplateProposal),
              When(Field(1) = "{}", handleGetBlockTemplateRequest("nil")),
              When(Field(1) \in {"nil", "{template}", "{longpoll}"},
                   handleGetBlockTemplateRequest(Field(1))),
              Otherwise({Err("InvalidParameter")})>>)

handleGetCFilter ==
  /\ Serving("getcfilter")
  /\ Answer(<<When(~IsHash(Field(1)), {Err("NoCFIndex"), Err("DecodeHexString")}),
              Otherwise({Err("NoCFIndex"), Err("BlockNotFound"), Str("hex")})>>)

handleGetCFilterHeader ==
  /\ Serving("getcfilterheader")
  /\ Answer(<<When(~IsHash(Field(1)), {Err("NoCFIndex"), Err("DecodeHexString")}),
              Otherwise({Err("NoCFIndex"), Err("BlockNotFound"), Str("hash")})>>)

handleGetConnectionCount == Serving("getconnectioncount") /\ Replies(Num("int"))
handleGetCurrentNet == Serving("getcurrentnet") /\ Replies(Num("uint"))
handleGetDifficulty == Serving("getdifficulty") /\ Replies(Num("float"))
handleGetGenerate == Serving("getgenerate") /\ Replies(Bool)
handleGetHashesPerSec == Serving("gethashespersec") /\ Replies(Num("int"))

handleGetHeaders ==
  /\ Serving("getheaders")
  /\ Answer(<<When(Field(1) = "[text]" \/ ~IsHash(Field(2)), {Err("DecodeHexString")}),
              Otherwise({Err("Internal"), Arr("header")})>>)

handleGetInfo == Serving("getinfo") /\ Replies(Obj("InfoChainResult"))
handleGetMempoolInfo == Serving("getmempoolinfo") /\ Replies(Obj("GetMempoolInfoResult"))

handleGetNetworkHashPSReplies == {Err("Internal"), Num("float")}

handleGetMiningInfo ==
  /\ Serving("getmininginfo")
  /\ \E r \in handleGetNetworkHashPSReplies :
       Replies(IF r = Num("float") THEN Obj("GetMiningInfoResult") ELSE r)

handleGetNetTotals == Serving("getnettotals") /\ Replies(Obj("GetNetTotalsResult"))

handleGetNetworkHashPS ==
  /\ Serving("getnetworkhashps")
  /\ Answer(<<When(Field(2) = "0", {Num("float")}),
              Otherwise(handleGetNetworkHashPSReplies)>>)

handleGetNodeAddresses ==
  /\ Serving("getnodeaddresses")
  /\ Answer(<<When(Field(1) \in {"0", "-1"}, {Err("InvalidParameter")}),
              Otherwise({Arr("GetNodeAddressesResult")})>>)

handleGetPeerInfo == Serving("getpeerinfo") /\ Replies(Arr("GetPeerInfoResult"))

handleGetRawMempool ==
  /\ Serving("getrawmempool")
  /\ Replies(IF Field(1) = "true" THEN Dict("GetRawMempoolVerboseResult") ELSE Arr("hash"))

handleGetRawTransaction ==
  /\ Serving("getrawtransaction")
  /\ Answer(<<When(~IsHash(Field(1)), {Err("DecodeHexString")}),
              When(Field(2) \in {"nil", "0"}, {Err("NoTxInfo"), Err("Internal"), Str("tx")}),
              Otherwise({Err("NoTxInfo"), Err("Internal"), Obj("TxRawResult")})>>)

(* An output that is spent, and not looked for in the pool, is null. *)
handleGetTxOut ==
  /\ Serving("gettxout")
  /\ Answer(<<When(~IsHash(Field(1)), {Err("DecodeHexString")}),
              When(Field(3) \in {"nil", "true"},
                   {Err("NoTxInfo"), Err("InvalidTxVout"), Err("Internal"), Null,
                    Obj("GetTxOutResult")}),
              Otherwise({Err("NoTxInfo"), Null, Obj("GetTxOutResult")})>>)

handleHelp ==
  /\ Serving("help")
  /\ Helps(rpcHandlers)

handlePing ==
  /\ Serving("ping")
  /\ Answer(<<Otherwise({Err("Internal"), Null})>>)

(* The address is decoded before the count is looked at; asking for none   *)
(* gives null, finding none an error.                                      *)
handleSearchRawTransactions ==
  /\ Serving("searchrawtransactions")
  /\ Answer(<<When(~IsAddress(Field(1)), {Err("Misc"), Err("InvalidAddressOrKey")}),
              When(Field(4) = "0", {Err("Misc"), Null}),
              When(Field(2) = "0",
                   {Err("Misc"), Err("Internal"), Err("NoTxInfo"), Arr("tx")}),
              Otherwise({Err("Misc"), Err("Internal"), Err("NoTxInfo"), Err("BlockNotFound"),
                         Arr("SearchRawTransactionsResult")})>>)

(* The fee setting is not looked at. *)
handleSendRawTransaction ==
  /\ Serving("sendrawtransaction")
  /\ Answer(<<When(~IsHex(Field(1)), {Err("DecodeHexString")}),
              When(Field(1) # "tx", {Err("Deserialization")}),
              Otherwise({Err("TxError"), Err("TxAlreadyInChain"), Err("TxRejected"),
                         Err("Internal"), Str("hash")})>>)

handleSetGenerate ==
  /\ Serving("setgenerate")
  /\ Answer(<<When(Field(1) = "false" \/ Field(2) = "0", {Null}),
              Otherwise({Err("Internal"), Null})>>)

handleSignMessageWithPrivKey ==
  /\ Serving("signmessagewithprivkey")
  /\ Answer(<<When(Field(1) # "wif", {Err("InvalidAddressOrKey")}),
              Otherwise({Err("InvalidAddressOrKey"), Str("text")})>>)

handleStop == Serving("stop") /\ Replies(Str("text"))

handleSubmitBlock ==
  /\ Serving("submitblock")
  /\ Answer(<<When(~IsHex(Field(1)), {Err("DecodeHexString")}),
              When(Field(1) # "block", {Err("Deserialization")}),
              Otherwise({Str("text"), Null})>>)

handleUptime == Serving("uptime") /\ Replies(Num("int"))
handleValidateAddress == Serving("validateaddress") /\ Replies(Obj("ValidateAddressChainResult"))
handleVerifyChain == Serving("verifychain") /\ Replies(Bool)

handleVerifyMessage ==
  /\ Serving("verifymessage")
  /\ Answer(<<When(~IsAddress(Field(1)), {Err("InvalidAddressOrKey")}),
              Otherwise({Err("Type"), Err("Parse"), Bool})>>)

handleVersion == Serving("version") /\ Replies(Dict("VersionResult"))

----------------------------------------------------------------------------
(* The websocket handlers, in the order of rpcwebsocket.go. *)

handleWebsocketHelp ==
  /\ ServingWs("help")
  /\ Helps(rpcHandlers \cup wsHandlers)

(* A filter is made by the first call and when a reload is asked for, and  *)
(* added to otherwise.                                                     *)
handleLoadTxFilter ==
  /\ ServingWs("loadtxfilter")
  /\ phase' = "answered"
  /\ IF Field(3) = "[{bad outpoint}]"
       THEN reply' = Err("InvalidParameter") /\ UNCHANGED filterData
       ELSE reply' = Null /\ filterData' = TRUE
  /\ UNCHANGED <<conf, call, params, fields, outcome>>

handleNotifyBlocks == ServingWs("notifyblocks") /\ Replies(Null)
handleSession == ServingWs("session") /\ Replies(Obj("SessionResult"))
handleStopNotifyBlocks == ServingWs("stopnotifyblocks") /\ Replies(Null)

deserializeOutpoints(outpoints) ==
  IF outpoints = "[{bad outpoint}]" THEN Err("DecodeHexString") ELSE Null

checkAddressValidity(addresses) ==
  IF addresses \in {"[text]", "[hash]"} THEN Err("InvalidAddressOrKey") ELSE Null

handleNotifySpent == ServingWs("notifyspent") /\ Replies(deserializeOutpoints(Field(1)))
handleNotifyNewTransactions == ServingWs("notifynewtransactions") /\ Replies(Null)
handleStopNotifyNewTransactions == ServingWs("stopnotifynewtransactions") /\ Replies(Null)
handleNotifyReceived == ServingWs("notifyreceived") /\ Replies(checkAddressValidity(Field(1)))
handleStopNotifySpent == ServingWs("stopnotifyspent") /\ Replies(deserializeOutpoints(Field(1)))
handleStopNotifyReceived == ServingWs("stopnotifyreceived") /\ Replies(checkAddressValidity(Field(1)))

handleRescanBlocks ==
  /\ ServingWs("rescanblocks")
  /\ Answer(<<When(~filterData, {Err("Misc")}),
              When(Field(1) = "[text]", {PlainErr}),
              When(Field(1) = "[]", {Arr("RescannedBlock")}),
              Otherwise({Err("BlockNotFound"), Err("InvalidParameter"), Arr("RescannedBlock")})>>)

(* The outpoints are parsed first, then the block to begin with, then the  *)
(* one to end with if there is one; a reorganization under the scan, or a  *)
(* client that leaves, ends it early.                                      *)
handleRescan ==
  /\ ServingWs("rescan")
  /\ Answer(<<When(Field(3) = "[{bad outpoint}]" \/ ~IsHash(Field(1)), {Err("DecodeHexString")}),
              When(Field(4) # "nil" /\ ~IsHash(Field(4)),
                   {Err("BlockNotFound"), Err("DecodeHexString")}),
              Otherwise({Err("BlockNotFound"), Err("Database"), Err("RescanReorg"), Null})>>)

----------------------------------------------------------------------------
(* What the server's help says a method returns. *)

rpcResultTypes(method) ==
  CASE method \in {"addnode", "node", "ping", "setgenerate", "loadtxfilter",
         "notifyblocks", "stopnotifyblocks", "notifynewtransactions",
         "stopnotifynewtransactions", "notifyreceived", "stopnotifyreceived",
         "notifyspent", "stopnotifyspent", "rescan"} -> {Null}
    [] method \in {"createrawtransaction", "debuglevel", "getbestblockhash",
         "getblockhash", "getcfilter", "getcfilterheader", "help",
         "sendrawtransaction", "signmessagewithprivkey", "stop"} -> {Str("text")}
    [] method = "decoderawtransaction" -> {Obj("TxRawDecodeResult")}
    [] method = "decodescript" -> {Obj("DecodeScriptResult")}
    [] method \in {"estimatefee", "getdifficulty", "gethashespersec",
         "getnetworkhashps"} -> {Num("float")}
    [] method \in {"generate", "getheaders"} -> {Arr("string")}
    [] method = "getaddednodeinfo" -> {Arr("string"), Arr("GetAddedNodeInfoResult")}
    [] method = "getbestblock" -> {Obj("GetBestBlockResult")}
    [] method = "getblock" -> {Str("text"), Obj("GetBlockVerboseResult")}
    [] method \in {"getblockcount", "getconnectioncount", "uptime"} -> {Num("int")}
    [] method = "getblockheader"
         -> {Str("text"), Obj("GetBlockHeaderVerboseResult")}
    [] method = "getblocktemplate"
         -> {Obj("GetBlockTemplateResult"), Str("text"), Null}
    [] method = "getblockchaininfo" -> {Obj("GetBlockChainInfoResult")}
    [] method = "getcurrentnet" -> {Num("uint")}
    [] method \in {"getgenerate", "verifychain", "verifymessage"} -> {Bool}
    [] method = "getinfo" -> {Obj("InfoChainResult")}
    [] method = "getmempoolinfo" -> {Obj("GetMempoolInfoResult")}
    [] method = "getmininginfo" -> {Obj("GetMiningInfoResult")}
    [] method = "getnettotals" -> {Obj("GetNetTotalsResult")}
    [] method = "getnodeaddresses" -> {Arr("GetNodeAddressesResult")}
    [] method = "getpeerinfo" -> {Arr("GetPeerInfoResult")}
    [] method = "getrawmempool"
         -> {Arr("string"), Obj("GetRawMempoolVerboseResult")}
    [] method = "getrawtransaction" -> {Str("text"), Obj("TxRawResult")}
    [] method = "gettxout" -> {Obj("GetTxOutResult")}
    [] method = "searchrawtransactions"
         -> {Str("text"), Arr("SearchRawTransactionsResult")}
    [] method = "submitblock" -> {Null, Str("text")}
    [] method = "validateaddress" -> {Obj("ValidateAddressChainResult")}
    [] method = "version" -> {Dict("VersionResult")}
    [] method = "session" -> {Obj("SessionResult")}
    [] method = "rescanblocks" -> {Arr("RescannedBlock")}

----------------------------------------------------------------------------

standardHandlers ==
  \/ handleAddNode
  \/ handleNode
  \/ handleCreateRawTransaction
  \/ handleDebugLevel
  \/ handleDecodeRawTransaction
  \/ handleDecodeScript
  \/ handleEstimateFee
  \/ handleGenerate
  \/ handleGetAddedNodeInfo
  \/ handleGetBestBlock
  \/ handleGetBestBlockHash
  \/ handleGetBlock
  \/ handleGetBlockChainInfo
  \/ handleGetBlockCount
  \/ handleGetBlockHash
  \/ handleGetBlockHeader
  \/ handleGetBlockTemplate
  \/ handleGetCFilter
  \/ handleGetCFilterHeader
  \/ handleGetConnectionCount
  \/ handleGetCurrentNet
  \/ handleGetDifficulty
  \/ handleGetGenerate
  \/ handleGetHashesPerSec
  \/ handleGetHeaders
  \/ handleGetInfo
  \/ handleGetMempoolInfo
  \/ handleGetMiningInfo
  \/ handleGetNetTotals
  \/ handleGetNetworkHashPS
  \/ handleGetNodeAddresses
  \/ handleGetPeerInfo
  \/ handleGetRawMempool
  \/ handleGetRawTransaction
  \/ handleGetTxOut
  \/ handleHelp
  \/ handlePing
  \/ handleSearchRawTransactions
  \/ handleSendRawTransaction
  \/ handleSetGenerate
  \/ handleSignMessageWithPrivKey
  \/ handleStop
  \/ handleSubmitBlock
  \/ handleUptime
  \/ handleValidateAddress
  \/ handleVerifyChain
  \/ handleVerifyMessage
  \/ handleVersion

websocketHandlers ==
  \/ handleWebsocketHelp
  \/ handleLoadTxFilter
  \/ handleNotifyBlocks
  \/ handleSession
  \/ handleStopNotifyBlocks
  \/ handleNotifySpent
  \/ handleNotifyNewTransactions
  \/ handleStopNotifyNewTransactions
  \/ handleNotifyReceived
  \/ handleStopNotifySpent
  \/ handleStopNotifyReceived
  \/ handleRescanBlocks
  \/ handleRescan

Serve == processRequest \/ inHandler \/ standardCmdResult \/ standardHandlers \/ websocketHandlers
=============================================================================
