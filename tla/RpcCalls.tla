------------------------------ MODULE RpcCalls ------------------------------
(***************************************************************************)
(* Package rpcclient's calls, made to this node's RPC server or to another *)
(* one: which command each call sends with which of its optional arguments *)
(* left nil, and what its Receive decodes the result into.  The module     *)
(* composes the calls with BtcJson (the marshalling on both sides) and     *)
(* RpcServer (the handlers), so that the three can be held against each    *)
(* other.                                                                  *)
(*                                                                         *)
(* The variants of a call that differ in how many of the optional          *)
(* arguments they take are one action.  How a request is sent, retried and *)
(* matched with its response is modelled in RpcClient; here one call is    *)
(* made at a time and its response arrives.                                *)
(***************************************************************************)
EXTENDS RpcServer

----------------------------------------------------------------------------
(* Making a call. *)

(* SendCmd: the command is marshalled and sent. *)
SendCmd(method, args, future, kind) ==
  /\ phase = "idle"
  /\ phase' = "sent"
  /\ call' = [method |-> method, args |-> args, future |-> future, kind |-> kind]
  /\ params' = makeParams(args)
  /\ UNCHANGED <<conf, fields, reply, outcome, filterData>>

(* The future holds its result from the start: nothing is sent. *)
newFuture(method, args, future, result) ==
  /\ phase = "idle"
  /\ phase' = "done"
  /\ call' = [method |-> method, args |-> args, future |-> future, kind |-> "unsent"]
  /\ outcome' = result
  /\ UNCHANGED <<conf, params, fields, reply, filterData>>

Calls(method, tuples, future) == \E args \in tuples : SendCmd(method, args, future, "cmd")

(* A call that needs a websocket. *)
CallsWs(method, tuples, future) ==
  \E args \in tuples :
    IF conf.post THEN newFuture(method, args, future, "ErrWebsocketsRequired")
    ELSE SendCmd(method, args, future, "cmd")

(* A call that asks for notifications: without handlers for them nothing   *)
(* is asked and the call succeeds.                                         *)
CallsNtfn(method, tuples, future) ==
  \E args \in tuples :
    IF conf.post THEN newFuture(method, args, future, "ErrWebsocketsRequired")
    ELSE IF ~conf.ntfnHandlers THEN newFuture(method, args, future, "nil result")
    ELSE SendCmd(method, args, future, "cmd")

(* A call whose result is not looked at, but for its error. *)
Ignored == <<"any", "">>

(* A request of a method the client has no call for, with the caller's own *)
(* parameters.                                                             *)
RawRequestAsync ==
  \E r \in {<<"stopnotifyblocks", <<>>>>, <<"stopnotifynewtransactions", <<>>>>,
            <<"stopnotifyspent", <<"[{outpoint}]">>>>, <<"stopnotifyspent", <<"[{bad outpoint}]">>>>,
            <<"stopnotifyreceived", <<"[address]">>>>, <<"stopnotifyreceived", <<"[text]">>>>,
            <<"loadtxfilter", <<"false", "[]", "[{bad outpoint}]">>>>,
            <<"notifyreceived", <<"[text]">>>>, <<"rescanblocks", <<"[text]">>>>,
            <<"help", <<"session">>>>, <<"help", <<"text">>>>, <<"getblockhash", <<"text">>>>} :
    SendCmd(r[1], r[2], Ignored, "raw")

(* What the client finds the server to be, by getinfo and, where there is  *)
(* no such method, getnetworkinfo.                                         *)
BackendVersion == IF conf.server = "bitcoind" THEN "BitcoindPost19" ELSE "Btcd"

(* The fee setting of sendrawtransaction: allowHighFees for a btcd, a      *)
(* maximum rate, 0 for none, for a bitcoind of version 0.19 or later.      *)
FeeSettings == IF BackendVersion = "BitcoindPost19" THEN {"0", "10000000"} ELSE {"true", "false"}

----------------------------------------------------------------------------
(* chain.go *)

GetBestBlockHashAsync == Calls("getbestblockhash", {<<>>}, Str("hash"))

GetBlockAsync == Calls("getblock", {<<"hash", "0">>}, Str("block"))

GetBlockVerboseAsync == Calls("getblock", {<<"hash", "1">>}, Obj("GetBlockVerboseResult"))

GetBlockVerboseTxAsync == Calls("getblock", {<<"hash", "2">>}, Obj("GetBlockVerboseTxResult"))

GetBlockCountAsync == Calls("getblockcount", {<<>>}, Num("int"))

GetChainTxStatsAsync ==
  Calls("getchaintxstats", {<<"nil", "nil">>, <<"10", "nil">>, <<"10", "hash">>},
    Obj("GetChainTxStatsResult"))

GetDifficultyAsync == Calls("getdifficulty", {<<>>}, Num("float"))

GetBlockChainInfoAsync == Calls("getblockchaininfo", {<<>>}, Obj("GetBlockChainInfoResult"))

GetBlockFilterAsync ==
  Calls("getblockfilter", {<<"hash", "nil">>, <<"hash", "text">>}, Obj("GetBlockFilterResult"))

GetBlockHashAsync == Calls("getblockhash", {<<"1">>, <<"-1">>}, Str("hash"))

GetBlockHeaderAsync == Calls("getblockheader", {<<"hash", "false">>}, Str("header"))

GetBlockHeaderVerboseAsync ==
  Calls("getblockheader", {<<"hash", "true">>}, Obj("GetBlockHeaderVerboseResult"))

GetMempoolEntryAsync == Calls("getmempoolentry", {<<"hash">>}, Obj("GetMempoolEntryResult"))

GetRawMempoolAsync == Calls("getrawmempool", {<<"false">>}, Arr("hash"))

GetRawMempoolVerboseAsync ==
  Calls("getrawmempool", {<<"true">>}, Dict("GetRawMempoolVerboseResult"))

EstimateFeeAsync == Calls("estimatefee", {<<"0">>, <<"10">>}, Num("float"))

EstimateSmartFeeAsync ==
  Calls("estimatesmartfee", {<<"10", "nil">>, <<"10", "text">>}, Obj("EstimateSmartFeeResult"))

VerifyChainAsync == Calls("verifychain", {<<"nil", "nil">>, <<"3", "nil">>, <<"3", "10">>}, Bool)

GetTxOutAsync ==
  Calls("gettxout", {<<"hash", "1", "true">>, <<"hash", "1", "false">>}, Obj("GetTxOutResult"))

GetTxOutSetInfoAsync == Calls("gettxoutsetinfo", {<<>>}, Obj("GetTxOutSetInfoResult"))

RescanBlocksAsync == Calls("rescanblocks", {<<"[]">>, <<"[hash]">>}, Arr("RescannedBlock"))

InvalidateBlockAsync == Calls("invalidateblock", {<<"hash">>}, Ignored)

GetCFilterAsync == Calls("getcfilter", {<<"hash", "0">>}, Str("hex"))

GetCFilterHeaderAsync == Calls("getcfilterheader", {<<"hash", "0">>}, Str("hash"))

GetBlockStatsAsync ==
  Calls("getblockstats", {<<"hash", "nil">>, <<"10", "[text]">>}, Obj("GetBlockStatsResult"))

DeriveAddressesAsync ==
  Calls("deriveaddresses", {<<"text", "nil">>, <<"text", "10">>}, Arr("string"))

GetDescriptorInfoAsync == Calls("getdescriptorinfo", {<<"text">>}, Obj("GetDescriptorInfoResult"))

chainCalls ==
  \/ GetBestBlockHashAsync
  \/ GetBlockAsync
  \/ GetBlockVerboseAsync
  \/ GetBlockVerboseTxAsync
  \/ GetBlockCountAsync
  \/ GetChainTxStatsAsync
  \/ GetDifficultyAsync
  \/ GetBlockChainInfoAsync
  \/ GetBlockFilterAsync
  \/ GetBlockHashAsync
  \/ GetBlockHeaderAsync
  \/ GetBlockHeaderVerboseAsync
  \/ GetMempoolEntryAsync
  \/ GetRawMempoolAsync
  \/ GetRawMempoolVerboseAsync
  \/ EstimateFeeAsync
  \/ EstimateSmartFeeAsync
  \/ VerifyChainAsync
  \/ GetTxOutAsync
  \/ GetTxOutSetInfoAsync
  \/ RescanBlocksAsync
  \/ InvalidateBlockAsync
  \/ GetCFilterAsync
  \/ GetCFilterHeaderAsync
  \/ GetBlockStatsAsync
  \/ DeriveAddressesAsync
  \/ GetDescriptorInfoAsync

----------------------------------------------------------------------------
(* extensions.go *)

DebugLevelAsync == Calls("debuglevel", {<<"show">>, <<"text">>}, Str("text"))

CreateEncryptedWalletAsync == Calls("createencryptedwallet", {<<"text">>}, Ignored)

ListAddressTransactionsAsync ==
  Calls("listaddresstransactions", {<<"[address]", "text">>}, Arr("ListTransactionsResult"))

GetBestBlockAsync == Calls("getbestblock", {<<>>}, Obj("GetBestBlockResult"))

GetCurrentNetAsync == Calls("getcurrentnet", {<<>>}, Num("int"))

GetHeadersAsync == Calls("getheaders", {<<"[]", "">>, <<"[hash]", "hash">>}, Arr("header"))

ExportWatchingWalletAsync == Calls("exportwatchingwallet", {<<"text", "true">>}, Dict("text"))

SessionAsync == CallsWs("session", {<<>>}, Obj("SessionResult"))

VersionAsync == Calls("version", {<<>>}, Dict("VersionResult"))

extensionsCalls ==
  \/ DebugLevelAsync
  \/ CreateEncryptedWalletAsync
  \/ ListAddressTransactionsAsync
  \/ GetBestBlockAsync
  \/ GetCurrentNetAsync
  \/ GetHeadersAsync
  \/ ExportWatchingWalletAsync
  \/ SessionAsync
  \/ VersionAsync

----------------------------------------------------------------------------
(* mining.go *)

GenerateAsync == Calls("generate", {<<"0">>, <<"10">>}, Arr("hash"))

GenerateToAddressAsync ==
  Calls("generatetoaddress", {<<"10", "address", "nil">>, <<"10", "address", "100">>},
    Arr("hash"))

GetGenerateAsync == Calls("getgenerate", {<<>>}, Bool)

SetGenerateAsync ==
  Calls("setgenerate", {<<"true", "0">>, <<"true", "2">>, <<"false", "-1">>}, Ignored)

GetHashesPerSecAsync == Calls("gethashespersec", {<<>>}, Num("int"))

GetMiningInfoAsync == Calls("getmininginfo", {<<>>}, Obj("GetMiningInfoResult"))

GetNetworkHashPSAsync ==
  Calls("getnetworkhashps", {<<"nil", "nil">>, <<"10", "nil">>, <<"10", "0">>}, Num("float"))

GetWorkAsync == Calls("getwork", {<<"nil">>}, Obj("GetWorkResult"))

GetWorkSubmitAsync == Calls("getwork", {<<"hex">>}, Bool)

SubmitBlockAsync ==
  Calls("submitblock", {<<"", "nil">>, <<"block", "nil">>, <<"block", "{}">>}, Str("text"))

GetBlockTemplateAsync ==
  Calls("getblocktemplate", {<<"nil">>, <<"{}">>, <<"{template}">>, <<"{longpoll}">>,
    <<"{proposal}">>}, Obj("GetBlockTemplateResult"))

miningCalls ==
  \/ GenerateAsync
  \/ GenerateToAddressAsync
  \/ GetGenerateAsync
  \/ SetGenerateAsync
  \/ GetHashesPerSecAsync
  \/ GetMiningInfoAsync
  \/ GetNetworkHashPSAsync
  \/ GetWorkAsync
  \/ GetWorkSubmitAsync
  \/ SubmitBlockAsync
  \/ GetBlockTemplateAsync

----------------------------------------------------------------------------
(* net.go *)

AddNodeAsync ==
  Calls("addnode", {<<"address", "add">>, <<"address", "remove">>, <<"address", "onetry">>,
    <<"address", "text">>}, Ignored)

NodeAsync ==
  Calls("node", {<<"disconnect", "id", "nil">>, <<"remove", "text", "nil">>, <<"connect",
    "address", "nil">>, <<"connect", "address", "perm">>, <<"connect", "address", "text">>},
    Ignored)

GetAddedNodeInfoAsync ==
  Calls("getaddednodeinfo", {<<"true", "address">>}, Arr("GetAddedNodeInfoResult"))

GetAddedNodeInfoNoDNSAsync == Calls("getaddednodeinfo", {<<"false", "address">>}, Arr("string"))

GetConnectionCountAsync == Calls("getconnectioncount", {<<>>}, Num("int"))

PingAsync == Calls("ping", {<<>>}, Ignored)

GetNetworkInfoAsync == Calls("getnetworkinfo", {<<>>}, Obj("GetNetworkInfoResult"))

GetNodeAddressesAsync ==
  Calls("getnodeaddresses", {<<"nil">>, <<"0">>, <<"10">>}, Arr("GetNodeAddressesResult"))

GetPeerInfoAsync == Calls("getpeerinfo", {<<>>}, Arr("GetPeerInfoResult"))

GetNetTotalsAsync == Calls("getnettotals", {<<>>}, Obj("GetNetTotalsResult"))

netCalls ==
  \/ AddNodeAsync
  \/ NodeAsync
  \/ GetAddedNodeInfoAsync
  \/ GetAddedNodeInfoNoDNSAsync
  \/ GetConnectionCountAsync
  \/ PingAsync
  \/ GetNetworkInfoAsync
  \/ GetNodeAddressesAsync
  \/ GetPeerInfoAsync
  \/ GetNetTotalsAsync

----------------------------------------------------------------------------
(* notify.go *)

NotifyBlocksAsync == CallsNtfn("notifyblocks", {<<>>}, Ignored)

NotifySpentAsync == CallsNtfn("notifyspent", {<<"[]">>, <<"[{outpoint}]">>}, Ignored)

NotifyNewTransactionsAsync ==
  CallsNtfn("notifynewtransactions", {<<"true">>, <<"false">>}, Ignored)

NotifyReceivedAsync == CallsNtfn("notifyreceived", {<<"[]">>, <<"[address]">>}, Ignored)

RescanAsync ==
  CallsNtfn("rescan", {<<"", "[]", "[]", "nil">>, <<"hash", "[address]", "[{outpoint}]",
    "nil">>, <<"hash", "[address]", "[]", "">>, <<"hash", "[address]", "[]", "hash">>}, Ignored)

LoadTxFilterAsync ==
  Calls("loadtxfilter", {<<"true", "[address]", "[]">>, <<"false", "[]", "[{outpoint}]">>},
    Ignored)

notifyCalls ==
  \/ NotifyBlocksAsync
  \/ NotifySpentAsync
  \/ NotifyNewTransactionsAsync
  \/ NotifyReceivedAsync
  \/ RescanAsync
  \/ LoadTxFilterAsync

----------------------------------------------------------------------------
(* rawtransactions.go *)

GetRawTransactionAsync == Calls("getrawtransaction", {<<"hash", "0">>}, Str("tx"))

GetRawTransactionVerboseAsync == Calls("getrawtransaction", {<<"hash", "1">>}, Obj("TxRawResult"))

DecodeRawTransactionAsync ==
  Calls("decoderawtransaction", {<<"">>, <<"hex">>, <<"tx">>}, Obj("TxRawResult"))

FundRawTransactionAsync ==
  Calls("fundrawtransaction", {<<"tx", "{}", "nil">>, <<"tx", "{}", "true">>},
    Obj("FundRawTransactionResult"))

CreateRawTransactionAsync ==
  Calls("createrawtransaction", {<<"[]", "{}", "nil">>, <<"[{outpoint}]", "{amounts}", "nil">>,
    <<"[{bad outpoint}]", "{}", "0">>, <<"[]", "{amounts}", "-1">>}, Str("tx"))

(* Which setting is sent depends on what the server was found to be. *)
SendRawTransactionAsync == Calls("sendrawtransaction", {"", "tx"} \X FeeSettings, Str("hash"))

SignRawTransactionAsync ==
  Calls("signrawtransaction", {<<"", "nil", "nil", "nil">>, <<"tx", "[{outpoint}]", "nil",
    "nil">>, <<"tx", "[{outpoint}]", "[text]", "nil">>, <<"tx", "[{outpoint}]", "[text]",
    "text">>}, Obj("SignRawTransactionResult"))

SignRawTransactionWithWalletAsync ==
  Calls("signrawtransactionwithwallet", {<<"tx", "nil", "nil">>, <<"tx", "[{outpoint}]",
    "nil">>, <<"tx", "[{outpoint}]", "text">>}, Obj("SignRawTransactionWithWalletResult"))

SearchRawTransactionsAsync ==
  Calls("searchrawtransactions", {<<"address", "0", "0", "0", "nil", "false", "[address]">>,
    <<"address", "0", "0", "10", "nil", "true", "[]">>}, Arr("tx"))

SearchRawTransactionsVerboseAsync ==
  Calls("searchrawtransactions", {<<"address", "1", "0", "0", "1", "false", "nil">>,
    <<"address", "1", "2", "10", "nil", "true", "[address]">>},
    Arr("SearchRawTransactionsResult"))

DecodeScriptAsync == Calls("decodescript", {<<"">>, <<"hex">>}, Obj("DecodeScriptResult"))

rawtransactionsCalls ==
  \/ GetRawTransactionAsync
  \/ GetRawTransactionVerboseAsync
  \/ DecodeRawTransactionAsync
  \/ FundRawTransactionAsync
  \/ CreateRawTransactionAsync
  \/ SendRawTransactionAsync
  \/ SignRawTransactionAsync
  \/ SignRawTransactionWithWalletAsync
  \/ SearchRawTransactionsAsync
  \/ SearchRawTransactionsVerboseAsync
  \/ DecodeScriptAsync

----------------------------------------------------------------------------
(* wallet.go *)

GetTransactionAsync ==
  Calls("gettransaction", {<<"hash", "nil">>, <<"hash", "true">>}, Obj("GetTransactionResult"))

ListTransactionsAsync ==
  Calls("listtransactions", {<<"text", "nil", "nil", "nil">>, <<"text", "10", "nil", "nil">>,
    <<"text", "10", "2", "nil">>, <<"text", "10", "2", "true">>}, Arr("ListTransactionsResult"))

ListUnspentAsync ==
  Calls("listunspent", {<<"nil", "nil", "nil">>, <<"1", "nil", "nil">>, <<"1", "100", "nil">>,
    <<"1", "100", "[address]">>}, Arr("ListUnspentResult"))

ListSinceBlockAsync ==
  Calls("listsinceblock", {<<"nil", "nil", "nil">>, <<"hash", "nil", "nil">>, <<"nil", "10",
    "nil">>, <<"nil", "10", "true">>, <<"hash", "10", "true">>}, Obj("ListSinceBlockResult"))

LockUnspentAsync == Calls("lockunspent", {<<"true", "[]">>, <<"false", "[{outpoint}]">>}, Ignored)

ListLockUnspentAsync == Calls("listlockunspent", {<<>>}, Arr("TransactionInput"))

SetTxFeeAsync == Calls("settxfee", {<<"0.5">>}, Ignored)

SendToAddressAsync ==
  Calls("sendtoaddress", {<<"address", "0.5", "nil", "nil">>, <<"address", "0.5", "text",
    "text">>}, Str("hash"))

SendFromAsync ==
  Calls("sendfrom", {<<"text", "address", "0.5", "nil", "nil", "nil">>, <<"text", "address",
    "0.5", "10", "nil", "nil">>, <<"text", "address", "0.5", "10", "text", "text">>},
    Str("hash"))

SendManyAsync ==
  Calls("sendmany", {<<"text", "{amounts}", "nil", "nil">>, <<"text", "{amounts}", "10",
    "nil">>, <<"text", "{amounts}", "10", "text">>}, Str("hash"))

AddMultisigAddressAsync ==
  Calls("addmultisigaddress", {<<"2", "[address]", "text">>}, Str("address"))

CreateMultisigAsync == Calls("createmultisig", {<<"2", "[address]">>}, Obj("CreateMultiSigResult"))

CreateNewAccountAsync == Calls("createnewaccount", {<<"text">>}, Ignored)

CreateWalletAsync ==
  Calls("createwallet", {"text"} \X {"nil", "true"} \X {"nil", "true"} \X {"nil", "text"}
    \X {"nil", "true"}, Obj("CreateWalletResult"))

GetAddressInfoAsync == Calls("getaddressinfo", {<<"address">>}, Obj("GetAddressInfoResult"))

GetNewAddressAsync ==
  Calls("getnewaddress", {<<"text", "nil">>, <<"text", "text">>}, Str("address"))

GetRawChangeAddressAsync ==
  Calls("getrawchangeaddress", {<<"text", "nil">>, <<"text", "text">>}, Str("address"))

AddWitnessAddressAsync == Calls("addwitnessaddress", {<<"address">>}, Str("address"))

GetAccountAddressAsync == Calls("getaccountaddress", {<<"text">>}, Str("address"))

GetAccountAsync == Calls("getaccount", {<<"address">>}, Str("text"))

SetAccountAsync == Calls("setaccount", {<<"address", "text">>}, Ignored)

GetAddressesByAccountAsync == Calls("getaddressesbyaccount", {<<"text">>}, Arr("address"))

MoveAsync ==
  Calls("move", {<<"text", "text", "0.5", "nil", "nil">>, <<"text", "text", "0.5", "10",
    "nil">>, <<"text", "text", "0.5", "10", "text">>}, Bool)

RenameAccountAsync == Calls("renameaccount", {<<"text", "text">>}, Ignored)

ValidateAddressAsync == Calls("validateaddress", {<<"address">>}, Obj("ValidateAddressWalletResult"))

KeyPoolRefillAsync == Calls("keypoolrefill", {<<"nil">>, <<"10">>}, Ignored)

ListAccountsAsync == Calls("listaccounts", {<<"nil">>, <<"10">>}, Dict("float"))

GetBalanceAsync == Calls("getbalance", {<<"text", "nil">>, <<"text", "10">>}, Num("float"))

GetBalancesAsync == Calls("getbalances", {<<>>}, Obj("GetBalancesResult"))

GetReceivedByAccountAsync ==
  Calls("getreceivedbyaccount", {<<"text", "nil">>, <<"text", "10">>}, Num("float"))

GetUnconfirmedBalanceAsync == Calls("getunconfirmedbalance", {<<"text">>}, Num("float"))

GetReceivedByAddressAsync ==
  Calls("getreceivedbyaddress", {<<"address", "nil">>, <<"address", "10">>}, Num("float"))

ListReceivedByAccountAsync ==
  Calls("listreceivedbyaccount", {<<"nil", "nil", "nil">>, <<"10", "nil", "nil">>, <<"10",
    "true", "nil">>}, Arr("ListReceivedByAccountResult"))

ListReceivedByAddressAsync ==
  Calls("listreceivedbyaddress", {<<"nil", "nil", "nil">>, <<"10", "nil", "nil">>, <<"10",
    "true", "nil">>}, Arr("ListReceivedByAddressResult"))

WalletLockAsync == Calls("walletlock", {<<>>}, Ignored)
WalletPassphrase == Calls("walletpassphrase", {<<"text", "100">>}, Ignored)

WalletPassphraseChangeAsync == Calls("walletpassphrasechange", {<<"text", "text">>}, Ignored)

SignMessageAsync == Calls("signmessage", {<<"address", "text">>}, Str("text"))

VerifyMessageAsync == Calls("verifymessage", {<<"address", "text", "text">>}, Bool)

DumpPrivKeyAsync == Calls("dumpprivkey", {<<"address">>}, Str("wif"))

ImportAddressAsync ==
  Calls("importaddress", {<<"address", "", "nil">>, <<"address", "text", "false">>}, Ignored)

ImportMultiAsync ==
  Calls("importmulti", {<<"[{}]", "nil">>, <<"[{}]", "{}">>}, Arr("ImportMultiResults"))

ImportPrivKeyAsync ==
  Calls("importprivkey", {<<"", "nil", "nil">>, <<"wif", "text", "nil">>, <<"wif", "text",
    "false">>}, Ignored)

ImportPubKeyAsync == Calls("importpubkey", {<<"text", "nil">>, <<"text", "false">>}, Ignored)

GetInfoAsync == Calls("getinfo", {<<>>}, Obj("InfoWalletResult"))

WalletCreateFundedPsbtAsync ==
  Calls("walletcreatefundedpsbt", {<<"[{}]", "[{}]", "nil", "nil", "nil">>, <<"[{}]", "[{}]",
    "nil", "{}", "true">>}, Obj("WalletCreateFundedPsbtResult"))

WalletProcessPsbtAsync ==
  Calls("walletprocesspsbt", {<<"text", "nil", "text", "nil">>, <<"text", "true", "text",
    "false">>}, Obj("WalletProcessPsbtResult"))

GetWalletInfoAsync == Calls("getwalletinfo", {<<>>}, Obj("GetWalletInfoResult"))

BackupWalletAsync == Calls("backupwallet", {<<"text">>}, Ignored)

DumpWalletAsync == Calls("dumpwallet", {<<"text">>}, Obj("DumpWalletResult"))

ImportWalletAsync == Calls("importwallet", {<<"text">>}, Ignored)

UnloadWalletAsync == Calls("unloadwallet", {<<"nil">>, <<"text">>}, Ignored)

LoadWalletAsync == Calls("loadwallet", {<<"text">>}, Obj("LoadWalletResult"))

walletCalls ==
  \/ GetTransactionAsync
  \/ ListTransactionsAsync
  \/ ListUnspentAsync
  \/ ListSinceBlockAsync
  \/ LockUnspentAsync
  \/ ListLockUnspentAsync
  \/ SetTxFeeAsync
  \/ SendToAddressAsync
  \/ SendFromAsync
  \/ SendManyAsync
  \/ AddMultisigAddressAsync
  \/ CreateMultisigAsync
  \/ CreateNewAccountAsync
  \/ CreateWalletAsync
  \/ GetAddressInfoAsync
  \/ GetNewAddressAsync
  \/ GetRawChangeAddressAsync
  \/ AddWitnessAddressAsync
  \/ GetAccountAddressAsync
  \/ GetAccountAsync
  \/ SetAccountAsync
  \/ GetAddressesByAccountAsync
  \/ MoveAsync
  \/ RenameAccountAsync
  \/ ValidateAddressAsync
  \/ KeyPoolRefillAsync
  \/ ListAccountsAsync
  \/ GetBalanceAsync
  \/ GetBalancesAsync
  \/ GetReceivedByAccountAsync
  \/ GetUnconfirmedBalanceAsync
  \/ GetReceivedByAddressAsync
  \/ ListReceivedByAccountAsync
  \/ ListReceivedByAddressAsync
  \/ WalletLockAsync
  \/ WalletPassphrase
  \/ WalletPassphraseChangeAsync
  \/ SignMessageAsync
  \/ VerifyMessageAsync
  \/ DumpPrivKeyAsync
  \/ ImportAddressAsync
  \/ ImportMultiAsync
  \/ ImportPrivKeyAsync
  \/ ImportPubKeyAsync
  \/ GetInfoAsync
  \/ WalletCreateFundedPsbtAsync
  \/ WalletProcessPsbtAsync
  \/ GetWalletInfoAsync
  \/ BackupWalletAsync
  \/ DumpWalletAsync
  \/ ImportWalletAsync
  \/ UnloadWalletAsync
  \/ LoadWalletAsync

----------------------------------------------------------------------------
(* btcctl: a command given as words on a command line, over HTTP POST.  A  *)
(* command that needs a websocket, or is a notification, is refused.       *)

unusableFlags ==
  {c.method : c \in chainSvrWsCmds \cup walletSvrWsCmds \cup chainSvrWsNtfns \cup walletSvrWsNtfns}

btcctl ==
  \E w \in {<<"help", <<>>>>, <<"help", <<"getblock">>>>, <<"help", <<"session">>>>,
            <<"stop", <<>>>>, <<"uptime", <<>>>>, <<"getmempoolinfo", <<>>>>,
            <<"signmessagewithprivkey", <<"wif", "text">>>>, <<"getchaintips", <<>>>>,
            <<"signmessagewithprivkey", <<"text", "text">>>>,
            <<"getblock", <<"hash">>>>, <<"getblock", <<"text", "1">>>>, <<"getblock", <<"hash", "text">>>>,
            <<"searchrawtransactions", <<"address", "1", "null", "null", "1">>>>,
            <<"getrawtransaction", <<"text">>>>, <<"createrawtransaction", <<"[{bad outpoint}]", "{}">>>>,
            <<"session", <<>>>>} :
    /\ conf.post
    /\ IF w[1] \in unusableFlags \/ ~NewCmdParses(CommandOf(w[1]), w[2])
         THEN newFuture(w[1], w[2], Ignored, "usage")
         ELSE SendCmd(w[1], NewCmd(CommandOf(w[1]), w[2]), Ignored, "btcctl")

----------------------------------------------------------------------------
(* Another server: a wallet, or a bitcoind.  It answers with the result    *)
(* the client expects or with an error; to a getblock whose verbosity is a *)
(* number, with the error of a server that only knows the flag.            *)

OtherServer ==
  /\ phase = "sent" /\ conf.server # "node"
  /\ \E r \in {call.future, Err("Wallet")} \cup
              (IF call.method = "getblock" /\ call.kind = "cmd" THEN {Err("InvalidParams")} ELSE {}) :
       Replies(IF r = Ignored THEN Null ELSE r)

----------------------------------------------------------------------------
(* Receive: the response is an error, or its result is decoded. *)

(* The fields of the structs that are marshalled as one and unmarshalled   *)
(* as the other, by their JSON names.                                      *)
TxRawDecodeResult == [txid |-> "string", version |-> "int", locktime |-> "uint", vin |-> "[vin]", vout |-> "[vout]"]
TxRawResult == [hex |-> "string", txid |-> "string", hash |-> "string", size |-> "int", vsize |-> "int",
  weight |-> "int", version |-> "uint", locktime |-> "uint", vin |-> "[vin]", vout |-> "[vout]",
  blockhash |-> "string", confirmations |-> "uint", time |-> "int", blocktime |-> "int"]
InfoChainResult == [version |-> "int", protocolversion |-> "int", blocks |-> "int", timeoffset |-> "int",
  connections |-> "int", proxy |-> "string", difficulty |-> "float", testnet |-> "bool",
  relayfee |-> "float", errors |-> "string"]
InfoWalletResult == [version |-> "int", protocolversion |-> "int", walletversion |-> "int",
  balance |-> "float", blocks |-> "int", timeoffset |-> "int", connections |-> "int",
  proxy |-> "string", difficulty |-> "float", testnet |-> "bool", keypoololdest |-> "int",
  keypoolsize |-> "int", unlocked_until |-> "int", paytxfee |-> "float", relayfee |-> "float",
  errors |-> "string"]
ValidateAddressChainResult == [isvalid |-> "bool", address |-> "string", isscript |-> "bool",
  iswitness |-> "bool", witness_version |-> "int", witness_program |-> "string"]
ValidateAddressWalletResult == [isvalid |-> "bool", address |-> "string", ismine |-> "bool",
  iswatchonly |-> "bool", isscript |-> "bool", pubkey |-> "string", iscompressed |-> "bool",
  account |-> "string", addresses |-> "[string]", hex |-> "string", script |-> "string",
  sigsrequired |-> "int"]

(* The block's transactions are under "tx" as hashes when they are not     *)
(* asked for and under "rawtx" when they are, which is what the client     *)
(* that asks for them reads as well.                                       *)
GetBlockVerboseResult(verbosity) ==
  [hash |-> "string", confirmations |-> "int", size |-> "int", height |-> "int",
   version |-> "int", merkleroot |-> "string", time |-> "int", nonce |-> "uint", bits |-> "string",
   difficulty |-> "float", previousblockhash |-> "string", nextblockhash |-> "string"]
   @@ (IF verbosity = "2" THEN "rawtx" :> "[tx]" ELSE "tx" :> "[string]")
GetBlockVerboseTxResult ==
  [hash |-> "string", confirmations |-> "int", size |-> "int", height |-> "int",
   version |-> "int", merkleroot |-> "string", tx |-> "[tx]", rawtx |-> "[tx]", time |-> "int",
   nonce |-> "uint", bits |-> "string", difficulty |-> "float", previousblockhash |-> "string",
   nextblockhash |-> "string"]

SentStruct(s) ==
  CASE s = "TxRawDecodeResult" -> TxRawDecodeResult
    [] s = "InfoChainResult" -> InfoChainResult
    [] s = "ValidateAddressChainResult" -> ValidateAddressChainResult
    [] s = "GetBlockVerboseResult" -> GetBlockVerboseResult(Field(2))
    [] OTHER -> [same |-> s]

ReadStruct(s) ==
  CASE s = "TxRawResult" -> TxRawResult
    [] s = "InfoWalletResult" -> InfoWalletResult
    [] s = "ValidateAddressWalletResult" -> ValidateAddressWalletResult
    [] s = "GetBlockVerboseTxResult" -> GetBlockVerboseTxResult
    [] OTHER -> [same |-> s]

(* A number without a sign or a fraction fits every kind of number. *)
Fits(kind, into) == kind \in Unmarshals(into)

(* The outcomes of unmarshalling one struct as another.  Fields the other  *)
(* does not have are skipped; a signed number need not fit an unsigned     *)
(* field.                                                                  *)
Unfit(sent, read) ==
  {f \in DOMAIN sent \cap DOMAIN read : ~Fits(sent[f], read[f])}
UnmarshalStruct(sent, read) ==
  (IF \A f \in Unfit(sent, read) : sent[f] = "int" THEN {"value"} ELSE {})
    \cup (IF Unfit(sent, read) # {} THEN {"undecodable"} ELSE {})

(* What a string is decoded as: hash and hex strings may be empty. *)
DecodesString(what, into) ==
  \/ into = "text" \/ what = into
  \/ (into = "hex" /\ what = "hash")

Strings == {"string", "hash", "tx", "header", "address"}

Decode(into, r) ==
  CASE into = Ignored -> {"value"}
    [] r = Null /\ into[1] = "string" /\ into[2] \in {"block", "tx", "header", "address", "wif"} -> {"undecodable"}
    [] r = Null -> {"value"}
    [] into[1] = "string" ->
         IF r[1] = "string" /\ DecodesString(r[2], into[2]) THEN {"value"} ELSE {"undecodable"}
    [] into[1] = "object" /\ r[1] = "object" -> IF into = r THEN {"value"}
         ELSE UnmarshalStruct(SentStruct(r[2]), ReadStruct(into[2]))
    [] into[1] = "array" /\ r[1] = "array" ->
         IF into[2] = r[2] \/ (into[2] = "string" /\ r[2] \in Strings) THEN {"value"} ELSE {"undecodable"}
    [] into[1] = "map" -> IF into = r THEN {"value"} ELSE {"undecodable"}
    [] into[1] \in {"int", "uint", "float", "bool"} ->
         IF Fits(r[1], into[1]) THEN {"value"} ELSE {"undecodable"}
    [] OTHER -> {"undecodable"}

(* getblock with the flags of the older servers. *)
legacyGetBlockRequest ==
  /\ phase' = "sent"
  /\ call' = [call EXCEPT !.kind = "raw"]
  /\ params' = <<params[1], IF params[2] = "0" THEN "false" ELSE "true",
                 IF params[2] = "2" THEN "true" ELSE "false">>
  /\ UNCHANGED <<conf, fields, reply, outcome, filterData>>

waitForGetBlockRes ==
  /\ phase = "answered" /\ reply = Err("InvalidParams")
  /\ call.method = "getblock" /\ call.kind = "cmd"
  /\ legacyGetBlockRequest

(* A submitted block is accepted by null: every string is an error. *)
SubmitBlockReceive == IF reply = Null THEN {"value"} ELSE {"rejected"}

ReceiveFuture ==
  /\ phase = "answered"
  /\ ~(reply = Err("InvalidParams") /\ call.method = "getblock" /\ call.kind = "cmd")
  /\ phase' = "done"
  /\ outcome' \in IF reply[1] = "error" THEN {"error"}
                  ELSE IF call.method = "submitblock" THEN SubmitBlockReceive
                  ELSE Decode(call.future, reply)
  /\ UNCHANGED <<conf, call, params, fields, reply, filterData>>

NoCall == [method |-> "", args |-> <<>>, future |-> Ignored, kind |-> "none"]

(* The next call is made on the same connection, or on a new one when the  *)
(* last was not answered.  The server keeps a filter for as long as the    *)
(* connection.                                                             *)
NextCall ==
  /\ phase \in {"done", "silent"}
  /\ phase' = "idle" /\ call' = NoCall
  /\ params' = <<>> /\ fields' = <<>>
  /\ reply' = Null /\ outcome' = "none"
  /\ filterData' = (phase = "done" /\ filterData)
  /\ UNCHANGED conf

----------------------------------------------------------------------------
(* Notifications, as the server builds them, and the parameters the        *)
(* client's handler takes.                                                 *)

Ntfns ==
  {<<"blockconnected", <<"hash", "10", "100">>>>, <<"blockdisconnected", <<"hash", "10", "100">>>>,
   <<"filteredblockconnected", <<"10", "header", "[]">>>>,
   <<"filteredblockconnected", <<"10", "header", "[text]">>>>,
   <<"filteredblockdisconnected", <<"10", "header">>>>,
   <<"recvtx", <<"tx", "nil">>>>, <<"recvtx", <<"tx", "{}">>>>,
   <<"redeemingtx", <<"tx", "nil">>>>, <<"redeemingtx", <<"tx", "{}">>>>,
   <<"relevanttxaccepted", <<"tx">>>>,
   <<"rescanprogress", <<"hash", "10", "100">>>>, <<"rescanfinished", <<"hash", "10", "100">>>>,
   <<"txaccepted", <<"hash", "0.5">>>>, <<"txaccepted", <<"hash", "1">>>>,
   <<"txacceptedverbose", <<"{}">>>>,
   <<"btcdconnected", <<"true">>>>, <<"accountbalance", <<"text", "0.5", "true">>>>,
   <<"walletlockstate", <<"true">>>>, <<"newtx", <<"text", "{}">>>>}

(* The count and the kinds of the parameters; one beyond the last kind is  *)
(* not read.                                                               *)
TakesParams(ps, least, most, kinds) ==
  /\ Len(ps) \in least .. most
  /\ \A i \in DOMAIN ps : i <= Len(kinds) => \/ Kind(ps[i]) = "null"
                                            \/ Fits(Kind(ps[i]), kinds[i])

parseChainNtfnParams(ps) == TakesParams(ps, 3, 3, <<"string", "int", "int">>)
parseFilteredBlockConnectedParams(ps) ==
  TakesParams(ps, 3, Len(ps), <<"int", "string", "[string]">>) /\ ps[2] = "header"
parseFilteredBlockDisconnectedParams(ps) ==
  TakesParams(ps, 2, Len(ps), <<"int", "string">>) /\ ps[2] = "header"
parseRelevantTxAcceptedParams(ps) == TakesParams(ps, 1, Len(ps), <<"string">>) /\ IsHex(ps[1])
parseChainTxNtfnParams(ps) == TakesParams(ps, 1, 2, <<"string", "object">>) /\ ps[1] = "tx"
parseRescanProgressParams(ps) == TakesParams(ps, 3, 3, <<"string", "int", "int">>)
parseTxAcceptedNtfnParams(ps) == TakesParams(ps, 2, 2, <<"string", "float">>)
parseTxAcceptedVerboseNtfnParams(ps) == TakesParams(ps, 1, 1, <<"object">>)
parseBtcdConnectedNtfnParams(ps) == TakesParams(ps, 1, 1, <<"bool">>)
parseAccountBalanceNtfnParams(ps) == TakesParams(ps, 3, 3, <<"string", "float", "bool">>)
parseWalletLockStateNtfnParams(ps) == TakesParams(ps, 2, 2, <<"string", "bool">>)

Understands(method, ps) ==
  CASE method \in {"blockconnected", "blockdisconnected"} -> parseChainNtfnParams(ps)
    [] method = "filteredblockconnected" -> parseFilteredBlockConnectedParams(ps)
    [] method = "filteredblockdisconnected" -> parseFilteredBlockDisconnectedParams(ps)
    [] method \in {"recvtx", "redeemingtx"} -> parseChainTxNtfnParams(ps)
    [] method = "relevanttxaccepted" -> parseRelevantTxAcceptedParams(ps)
    [] method \in {"rescanfinished", "rescanprogress"} -> parseRescanProgressParams(ps)
    [] method = "txaccepted" -> parseTxAcceptedNtfnParams(ps)
    [] method = "txacceptedverbose" -> parseTxAcceptedVerboseNtfnParams(ps)
    [] method = "btcdconnected" -> parseBtcdConnectedNtfnParams(ps)
    [] method = "accountbalance" -> parseAccountBalanceNtfnParams(ps)
    [] method = "walletlockstate" -> parseWalletLockStateNtfnParams(ps)
    [] OTHER -> TRUE

(* A notification that does not parse is dropped with a warning, and so is *)
(* every one of a client without handlers.                                 *)
handleNotification ==
  /\ phase = "idle" /\ ~conf.post
  /\ \E n \in Ntfns :
       /\ phase' = "done"
       /\ call' = [method |-> n[1], args |-> n[2], future |-> Ignored, kind |-> "ntfn"]
       /\ params' = makeParams(n[2])
       /\ outcome' = IF ~conf.ntfnHandlers THEN "dropped"
                     ELSE IF Understands(n[1], makeParams(n[2])) THEN "value"
                     ELSE "undecodable"
  /\ UNCHANGED <<conf, fields, reply, filterData>>

----------------------------------------------------------------------------

Sessions ==
  {[server |-> "node", post |-> FALSE, isAdmin |-> TRUE, ntfnHandlers |-> TRUE],
   [server |-> "node", post |-> FALSE, isAdmin |-> FALSE, ntfnHandlers |-> TRUE],
   [server |-> "node", post |-> TRUE, isAdmin |-> TRUE, ntfnHandlers |-> FALSE],
   [server |-> "node", post |-> TRUE, isAdmin |-> FALSE, ntfnHandlers |-> FALSE],
   [server |-> "wallet", post |-> FALSE, isAdmin |-> TRUE, ntfnHandlers |-> FALSE],
   [server |-> "bitcoind", post |-> TRUE, isAdmin |-> TRUE, ntfnHandlers |-> FALSE]}

Init ==
  /\ conf \in Sessions
  /\ phase = "idle" /\ call = NoCall
  /\ params = <<>> /\ fields = <<>>
  /\ reply = Null /\ outcome = "none"
  /\ filterData = FALSE

Next ==
  \/ chainCalls \/ extensionsCalls \/ miningCalls \/ netCalls \/ notifyCalls
  \/ rawtransactionsCalls \/ walletCalls
  \/ RawRequestAsync \/ btcctl
  \/ Serve \/ OtherServer
  \/ waitForGetBlockRes \/ ReceiveFuture \/ NextCall
  \/ handleNotification

Spec == Init /\ [][Next]_rpcVars

----------------------------------------------------------------------------

(* A command the client or btcctl made is always one the server's          *)
(* registration of the method can parse, and parses into the same command: *)
(* what the caller gave stands in its own field, and where the caller gave *)
(* nothing there is nothing or the registered default, whichever optional  *)
(* arguments come before it.                                               *)
CommandsArrive ==
  /\ phase = "sent" /\ call.kind \in {"cmd", "btcctl"} => Unmarshallable(CommandOf(call.method), params)
  /\ phase = "parsed" /\ call.kind \in {"cmd", "btcctl"} =>
       \A i \in DOMAIN call.args :
         IF call.args[i] # "nil" THEN fields[i] = call.args[i]
         ELSE fields[i] \in {"nil", populateDefaults(CommandOf(call.method).fields[i])}

(* The results and notifications the client cannot take from this node,    *)
(* or from the wallet: a template proposal's verdict is a string or null,  *)
(* where the client reads a template; a negative version of a transaction  *)
(* is decoded into an unsigned field; the wallet's lock state is sent      *)
(* without an account.                                                     *)
Misfits == {"getblocktemplate", "decoderawtransaction", "walletlockstate"}

(* No handler trips over an optional field that was left nil, and every    *)
(* result is one that the call waiting for it can decode, in every session *)
(* and after every history of calls, but for the Misfits.                  *)
ResultsDecode ==
  /\ reply # Panic
  /\ outcome = "undecodable" => call.method \in Misfits

(* What the help of a method leaves out: the array of hexadecimal          *)
(* transactions and the null of a search, the map around the entries of    *)
(* the pool, and the null for an output that is spent.                     *)
Undocumented == {"searchrawtransactions", "getrawmempool", "gettxout"}

Documented(method, r) ==
  \E d \in rpcResultTypes(method) : IF r = Null THEN d = Null ELSE Decode(d, r) = {"value"}

(* Every result of the server is of a type its help names for the method,  *)
(* but for those it leaves out.                                            *)
HelpAgrees ==
  phase = "answered" /\ conf.server = "node" /\ reply[1] # "error" =>
    call.method \in Undocumented \/ Documented(call.method, reply)

(* The commands can be registered, and the client, the server and the      *)
(* server's help agree on every call.                                      *)
CallsAgree == MustRegisterCmd /\ CommandsArrive /\ ResultsDecode /\ HelpAgrees
=============================================================================
