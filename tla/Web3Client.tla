----------------------------- MODULE Web3Client -----------------------------
(***************************************************************************)
(* The client of an EVM node, pkg/go-web3, and the token readers of the    *)
(* evm plugin that call contracts through it.  Goroutines call it at the   *)
(* same time through one provider.  A reply is known by the JSON it has    *)
(* where the result should be; a call ends with a value ("ok"), with a     *)
(* zero value made of an error ("zero"), with an error, or in a panic.     *)
(***************************************************************************)
EXTENDS Naturals, FiniteSets

CONSTANTS
    Callers,         \* goroutines
    NodeMethods      \* the methods they call

VARIABLES
    caller,          \* what each goroutine does
    inbox            \* connection -> the calls answered on it, not yet received

web3Vars == <<caller, inbox>>

-----------------------------------------------------------------------------
(* Replies *)

\* Names of the quantities in the documents a node returns.
Quantities == {"nonce", "blockNumber", "transactionIndex", "gas", "gasPrice", "value", "v",
               "gasUsed", "cumulativeGasUsed", "effectiveGasPrice", "status", "logIndex"}

\* word: 32 bytes; data: an ABI encoded string; overlong: one whose length
\* passes its end; text: not hexadecimal; short: less than two characters.
Texts == {"quantity", "0x", "word", "data", "overlong", "text", "short"}

\* A document may lack a quantity, or hold text in its place.
Documents == {<<"whole", "">>, <<"empty", "">>} \cup ({"lacks", "garbles"} \X Quantities)

\* fails: no connection, a status other than 200, no JSON, the time limit.
\* void: the body is the JSON null.  error: an error object, with or without result.
Replies == {<<kind, "">> : kind \in Texts \cup {"fails", "void", "error", "null", "boolean",
                                                "number", "strings", "mixed"}} \cup Documents

IsDocument(reply) == reply[1] \in {"whole", "empty", "lacks", "garbles"}

-----------------------------------------------------------------------------
(* Documents: the fields UnmarshalJSON reads as hexadecimal whatever they are *)

TransactionFields == {"nonce", "gas", "gasPrice", "value"}
LogFields         == {"blockNumber", "transactionIndex", "logIndex"}
ReceiptFields     == {"blockNumber", "transactionIndex", "gasUsed", "cumulativeGasUsed", "status"}
SignedFields      == {"gas", "gasPrice", "nonce", "v", "value"}

\* What each conversion to a document needs, and what it refuses beyond that.
Needed == [transaction |-> TransactionFields, receipt |-> ReceiptFields \cup LogFields,
           signed |-> SignedFields, trace |-> {}, block |-> {}]
Refused == [transaction |-> {}, receipt |-> {"effectiveGasPrice"}, signed |-> {}, trace |-> {}, block |-> {}]

ToDocument(kind, reply) ==
    CASE ~IsDocument(reply) -> "panic"
      [] reply[1] = "empty" -> "error"
      [] reply[1] = "lacks" /\ reply[2] \in Needed[kind] -> "panic"
      [] reply[1] = "garbles" /\ reply[2] \in Needed[kind] \cup Refused[kind] -> "error"
      [] OTHER -> "ok"

ToSyncingResponse(reply) ==
    IF reply[1] = "boolean" \/ (IsDocument(reply) /\ reply[1] # "empty") THEN "ok" ELSE "error"

\* ToString, ToComplexString
ToText(reply) == IF reply[1] \in Texts THEN "ok" ELSE "panic"
ToBoolean(reply) == IF reply[1] = "boolean" THEN "ok" ELSE "panic"
ToStringArray(reply) == IF reply[1] = "strings" THEN "ok" ELSE "panic"

\* The two characters before the digits are cut off unseen.
ToBigInt(reply) ==
    CASE reply[1] \in {"quantity", "word", "data", "overlong"} -> "ok"
      [] reply[1] \in {"0x", "text"} -> "error"
      [] OTHER -> "panic"

Convert(conversion, reply) ==
    CASE conversion = "string"  -> ToText(reply)
      [] conversion = "bigint"  -> ToBigInt(reply)
      [] conversion = "boolean" -> ToBoolean(reply)
      [] conversion = "strings" -> ToStringArray(reply)
      [] conversion = "syncing" -> ToSyncingResponse(reply)
      [] OTHER                  -> ToDocument(conversion, reply)

\* checkResponse: an error and a missing result are no values.
Checked(conversion, reply) ==
    IF reply[1] \in {"error", "null"} THEN "error" ELSE Convert(conversion, reply)

-----------------------------------------------------------------------------
(* Methods: <<conversion, whether SendRequest decodes into &pointer>>.  The   *)
(* JSON null leaves a RequestResult as it is, but makes the pointer nil.      *)

NodeCalls ==
    [eth_protocolVersion |-> <<"string", FALSE>>, eth_syncing |-> <<"syncing", FALSE>>,
     eth_coinbase |-> <<"string", FALSE>>, eth_mining |-> <<"boolean", FALSE>>,
     eth_hashrate |-> <<"bigint", FALSE>>, eth_gasPrice |-> <<"bigint", FALSE>>,
     eth_accounts |-> <<"strings", FALSE>>]

StateCalls ==
    [eth_blockNumber |-> <<"bigint", FALSE>>, eth_getBalance |-> <<"bigint", FALSE>>,
     debug_traceTransaction |-> <<"trace", FALSE>>, eth_getTransactionCount |-> <<"bigint", FALSE>>,
     eth_getStorageAt |-> <<"string", FALSE>>, eth_estimateGas |-> <<"bigint", TRUE>>]

TransactionCalls ==
    [eth_getTransactionByHash |-> <<"transaction", FALSE>>,
     eth_getTransactionByBlockHashAndIndex |-> <<"transaction", FALSE>>,
     eth_getTransactionByBlockNumberAndIndex |-> <<"transaction", FALSE>>]

SigningCalls ==
    [eth_sendTransaction |-> <<"string", TRUE>>, eth_signTransaction |-> <<"signed", TRUE>>]

BlockCalls ==
    [eth_compileSolidity |-> <<"string", FALSE>>, eth_getTransactionReceipt |-> <<"receipt", FALSE>>,
     eth_getBlockByNumber |-> <<"block", FALSE>>, eth_getBlockTransactionCountByHash |-> <<"bigint", FALSE>>,
     eth_getBlockTransactionCountByNumber |-> <<"bigint", FALSE>>]

UncleCalls ==
    [eth_getBlockByHash |-> <<"block", FALSE>>, eth_getUncleCountByBlockHash |-> <<"bigint", FALSE>>,
     eth_getUncleCountByBlockNumber |-> <<"bigint", FALSE>>, eth_getCode |-> <<"string", FALSE>>,
     eth_maxPriorityFeePerGas |-> <<"bigint", FALSE>>, eth_chainId |-> <<"bigint", TRUE>>]

NetCalls ==
    [net_listening |-> <<"boolean", FALSE>>, net_peerCount |-> <<"bigint", FALSE>>,
     net_version |-> <<"string", FALSE>>]

PersonalCalls ==
    [personal_listAccounts |-> <<"strings", FALSE>>, personal_newAccount |-> <<"string", TRUE>>,
     personal_sendTransaction |-> <<"string", FALSE>>, personal_unlockAccount |-> <<"boolean", FALSE>>]

ClientVersion == [web3_clientVersion |-> <<"string", FALSE>>]

\* No method is in two of the tables.
Joined(tables) == [m \in UNION {DOMAIN t : t \in tables} |-> (CHOOSE t \in tables : m \in DOMAIN t)[m]]

RpcCalls == Joined({NodeCalls, StateCalls, TransactionCalls, SigningCalls, BlockCalls, UncleCalls,
                    NetCalls, PersonalCalls, ClientVersion})

\* The methods that look at the hash they are given: 0x and 64 digits, or 64
\* digits; eth_getBlockByHash counts the characters after it has put 0x before.
HashShapes == {"0x64", "64", "60", "other"}
CheckHash(method, shape) ==
    CASE method = "eth_getBlockByHash" -> shape \in {"0x64", "60"}
      [] method \in {"eth_getTransactionByBlockHashAndIndex", "eth_getBlockTransactionCountByHash",
                     "eth_getUncleCountByBlockHash"} -> shape \in {"0x64", "64"}
      [] OTHER -> TRUE

-----------------------------------------------------------------------------
(* Token readers: eth_call of a function of the ABI.  <<argument types, what   *)
(* an error becomes, what the result becomes>>.                                *)

Erc20Calls ==
    [erc20_name |-> <<{}, "zero", "abi">>, erc20_symbol |-> <<{}, "zero", "abi">>,
     erc20_decimals |-> <<{}, "zero", "u256">>, erc20_totalSupply |-> <<{}, "zero", "u256">>,
     erc20_balanceOf |-> <<{"address"}, "zero", "u256">>]

Erc721Calls ==
    [erc721_name |-> <<{}, "zero", "abi">>, erc721_symbol |-> <<{}, "zero", "abi">>,
     erc721_tokenURI |-> <<{"uint256"}, "zero", "abi">>, erc721_baseURI |-> <<{}, "again", "abi">>,
     erc721_baseTokenURI |-> <<{}, "zero", "abi">>, erc721_totalSupply |-> <<{}, "zero", "u256">>,
     erc721_balanceOf |-> <<{"address"}, "zero", "u256">>, erc721_ownerOf |-> <<{"uint256"}, "zero", "owner">>]

Erc1155Calls ==
    [erc1155_name |-> <<{}, "zero", "abi">>, erc1155_symbol |-> <<{}, "zero", "abi">>,
     erc1155_supportsInterface |-> <<{"bytes4"}, "zero", "string">>,
     erc1155_uri |-> <<{"uint256"}, "zero", "abi">>,
     erc1155_balanceOf |-> <<{"address", "uint256"}, "zero", "u256">>,
     erc1155_balanceOfBatch |-> <<{}, "zero", "unpack">>]

ProxyCall   == [eip897_implementation |-> <<{}, "error", "owner">>]
DepositCall == [getDeposit |-> <<{}, "error", "bigint">>]

Readers == Joined({Erc20Calls, Erc721Calls, Erc1155Calls, ProxyCall, DepositCall})
Calls   == DOMAIN RpcCalls \cup DOMAIN Readers

ASSUME Web3Assumption == NodeMethods \subseteq Calls

\* A result that is no number makes nil, and the decimal of nil a panic.
U256(reply) == IF reply[1] \in Texts \ {"text"} THEN "ok" ELSE "panic"

AbiStringDecoder(reply) == IF reply[1] \in Texts \ {"overlong"} THEN "ok" ELSE "panic"

\* The last 20 bytes of a word.
OwnerOf(reply) ==
    IF reply[1] \in {"word", "data", "overlong"} THEN "ok"
    ELSE IF reply[1] \in Texts THEN "error" ELSE "panic"

Unpack(reply) ==
    IF reply[1] = "data" THEN "ok" ELSE IF reply[1] \in Texts THEN "error" ELSE "panic"

ReadResult(result, reply) ==
    CASE result = "u256"   -> U256(reply)
      [] result = "abi"    -> AbiStringDecoder(reply)
      [] result = "owner"  -> OwnerOf(reply)
      [] result = "unpack" -> Unpack(reply)
      [] OTHER             -> Convert(result, reply)

\* Eth.Call returns the reply unchecked and the readers look at Error only;
\* latestEvmContractDepositBalance looks at the pointer and converts as above.
Read(reader, reply) ==
    CASE reply[1] \in {"void", "null"} -> IF reader = "getDeposit" THEN "error" ELSE "panic"
      [] reply[1] = "error"            -> Readers[reader][2]
      [] OTHER                         -> ReadResult(Readers[reader][3], reply)

CallOutcome(method, reply) ==
    IF reply[1] = "void" THEN IF RpcCalls[method][2] THEN "panic" ELSE "error"
    ELSE Checked(RpcCalls[method][1], reply)

Outcome(method, reply) ==
    IF reply[1] = "fails" THEN "error"
    ELSE IF method \in DOMAIN Readers THEN Read(method, reply) ELSE CallOutcome(method, reply)

\* The digits of an argument: an integer is padded on the left, bytes4 on the
\* right, and nothing is cut.  Only 128 and 256 bits are looked at.
getHexValue(type, bits) ==
    IF (type = "uint256" /\ bits > 256) \/ (type = "uint128" /\ bits > 128) THEN 0
    ELSE IF bits <= 256 THEN 64
    ELSE (bits + 3) \div 4

\* An argument that is refused is an error before anything is sent.
ArgumentBits == {0, 160, 256, 257}
prepareTransaction(method, bits) ==
    method \in DOMAIN Readers =>
        \A type \in Readers[method][1] : getHexValue(type, IF type = "address" THEN 160 ELSE bits) # 0

-----------------------------------------------------------------------------

\* Of the reply it keeps whether it was its own, kept to the protocol, came to
\* a token reader and held a result.
CallerIdle == [at |-> "idle", method |-> "", outcome |-> "", mine |-> TRUE,
               conforms |-> TRUE, reader |-> FALSE, result |-> FALSE]

\* Mutant: the first connection is kept for the calls after it.
ConnectionKept(c) == CHOOSE d \in Callers : TRUE

\* The connection of a call.  SendRequest of the websocket provider has a value
\* receiver: the connection it dials is lost with its copy of the provider, the
\* next call dials anew and nothing closes the one before.  The HTTP provider
\* has an exchange for each request.
Connection(c) == c

Send(c, method, shape, bits) ==
    /\ caller[c].at \in {"idle", "done"}
    /\ caller' = [caller EXCEPT ![c] =
         IF CheckHash(method, shape) /\ prepareTransaction(method, bits)
         THEN [CallerIdle EXCEPT !.at = "sent", !.method = method]
         ELSE [CallerIdle EXCEPT !.at = "done", !.outcome = "error"]]
    /\ UNCHANGED inbox

\* The node answers the requests on a connection in any order.
Answer(c) ==
    /\ caller[c].at = "sent"
    /\ c \notin UNION {inbox[d] : d \in Callers}
    /\ inbox' = [inbox EXCEPT ![Connection(c)] = @ \cup {c}]
    /\ UNCHANGED caller

\* What a node replies to a method when it keeps to the protocol, and a
\* contract to its ABI.
Conforms(method, reply) ==
    \/ reply[1] \in {"fails", "error"}
    \/ /\ method \in DOMAIN RpcCalls
       /\ LET conversion == RpcCalls[method][1]
          IN  CASE conversion = "string"  -> reply[1] \in Texts \ {"short"}
                [] conversion = "bigint"  -> reply[1] = "quantity"
                [] conversion = "boolean" -> reply[1] = "boolean"
                [] conversion = "strings" -> reply[1] = "strings"
                [] conversion = "syncing" -> reply[1] \in {"boolean", "whole"}
                [] OTHER                  -> reply[1] \in {"whole", "null"}
    \/ /\ method \in DOMAIN Readers
       /\ reply[1] \in {"0x", "word"} \cup (IF Readers[method][3] \in {"abi", "unpack"} THEN {"data"} ELSE {})

\* Receive takes the first message of the connection, whosever it is.
Receive(c, d, reply) ==
    /\ caller[c].at = "sent" /\ d \in inbox[Connection(c)]
    /\ inbox' = [inbox EXCEPT ![Connection(c)] = @ \ {d}]
    /\ LET m   == caller[c].method
           out == Outcome(m, reply)
       IN  caller' = [caller EXCEPT ![c] =
             IF out = "again" THEN [@ EXCEPT !.method = "erc721_baseTokenURI"]
             ELSE [CallerIdle EXCEPT !.at = "done", !.mine = c = d, !.outcome = out,
                     !.conforms = Conforms(m, reply), !.reader = m \in DOMAIN Readers,
                     !.result = reply[1] \notin {"fails", "void", "error", "null"}]]

Web3Init == caller = [c \in Callers |-> CallerIdle] /\ inbox = [c \in Callers |-> {}]

Web3Next ==
    \E c \in Callers :
        \/ \E method \in NodeMethods, shape \in HashShapes, bits \in ArgumentBits : Send(c, method, shape, bits)
        \/ Answer(c)
        \/ \E d \in Callers, reply \in Replies : Receive(c, d, reply)

Web3Spec == Web3Init /\ [][Web3Next]_web3Vars

-----------------------------------------------------------------------------
\* However many goroutines call through one provider, a call ends with the
\* answer to its own request; a reply without a result is never returned as a
\* value, but for the zero a token reader makes of an error; and no reply of a
\* node that keeps to the protocol, nor of a contract that keeps to its ABI,
\* ends in a panic.
CallsSound ==
    \A c \in {d \in Callers : caller[d].at = "done"} :
        /\ caller[c].mine
        /\ caller[c].outcome = "ok" => caller[c].result
        /\ caller[c].outcome = "zero" => caller[c].reader
        /\ caller[c].conforms => caller[c].outcome # "panic"
=============================================================================
