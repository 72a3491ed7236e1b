---------------------------- MODULE ErrorMapping ----------------------------
(***************************************************************************)
(* How an error of the server reaches a user: bcmd::Error, the gRPC status *)
(* made of it, and the error the CLI and the web client make of the        *)
(* status.  A message is the sequence of its words, since both clients     *)
(* look into it.                                                           *)
(***************************************************************************)
EXTENDS Integers, Sequences

error_message ==
    [ChannelNotFound      |-> <<"channel", "not", "found">>,
     ChannelAlreadyExists |-> <<"channel", "already", "exists">>,
     ClientNotFound       |-> <<"client", "not", "found">>,
     ClientAlreadyExists  |-> <<"client", "already", "exists">>,
     AlreadyMember        |-> <<"already", "a", "member">>,
     NotAMember           |-> <<"not", "a", "member">>,
     MessageEmpty         |-> <<"message", "is", "empty">>,
     MessageInvalidPrefix |-> <<"message", "must", "not", "start", "with", "slash">>,
     MessageTooLong       |-> <<"message", "too", "long">>,
     InvalidUsername      |-> <<"invalid", "username">>,
     InvalidChannelName   |-> <<"invalid", "channel", "name", "(allowed ...)">>,
     InvalidArgument      |-> <<"invalid", "argument">>,
     StorageError         |-> <<"storage", "error">>,
     NetworkError         |-> <<"network", "error">>,
     NotImplemented       |-> <<"not", "implemented">>]

Errors == DOMAIN error_message

StartsWith(message, words) ==
    Len(words) <= Len(message) /\ SubSeq(message, 1, Len(words)) = words

Mentions(message, word) == \E i \in DOMAIN message : message[i] = word

errorToStatus(error) ==
    [code |-> CASE error \in {"ChannelNotFound", "ClientNotFound", "NotAMember"} -> "NOT_FOUND"
                [] error \in {"AlreadyMember", "ChannelAlreadyExists", "ClientAlreadyExists"}
                      -> "ALREADY_EXISTS"
                [] error \in {"InvalidUsername", "InvalidChannelName", "InvalidArgument",
                              "MessageEmpty", "MessageInvalidPrefix", "MessageTooLong"}
                      -> "INVALID_ARGUMENT"
                [] OTHER -> "INTERNAL",
     message |-> error_message[error]]

\* What gRPC itself reports when the connection or the deadline fails.
Unavailable == [code |-> "UNAVAILABLE", message |-> <<>>]

\* The errors the client looks for under a code, by how their message starts.
Recognised(code) ==
    CASE code = "NOT_FOUND" -> {"ClientNotFound", "NotAMember"}
      [] code = "ALREADY_EXISTS" -> {"ChannelAlreadyExists", "ClientAlreadyExists"}
      [] code = "INVALID_ARGUMENT" ->
            {"InvalidUsername", "MessageTooLong", "MessageEmpty", "MessageInvalidPrefix"}
      [] OTHER -> {}

\* What it takes the rest for.
Otherwise(code) ==
    CASE code = "NOT_FOUND" -> "ChannelNotFound"
      [] code = "ALREADY_EXISTS" -> "AlreadyMember"
      [] code = "INVALID_ARGUMENT" -> "InvalidChannelName"
      [] OTHER -> "NetworkError"

\* Fault variant: the code alone decides.
statusToErrorByCode(status) == Otherwise(status.code)

\* The CLI's.  No two messages start alike, so the order of the tests is
\* immaterial.
statusToError(status) ==
    LET found == {e \in Recognised(status.code) : StartsWith(status.message, error_message[e])}
    IN  IF found = {} THEN Otherwise(status.code) ELSE CHOOSE e \in found : TRUE

\* Fault variants: every NOT_FOUND is the client's; none is.
mapErrorEveryClient(status) == IF status.code = "NOT_FOUND" THEN "client-not-found" ELSE "unknown"
mapErrorNoClient(status) == IF status.code = "NOT_FOUND" THEN "channel-not-found" ELSE "unknown"

\* The web client's mapError, up to the wording it keeps.
mapError(status) ==
    CASE status.code = "NOT_FOUND" /\ StartsWith(status.message, <<"not", "a", "member">>)
            -> "not-a-member"
      [] status.code = "NOT_FOUND" /\ Mentions(status.message, "client") -> "client-not-found"
      [] status.code = "NOT_FOUND" /\ Mentions(status.message, "channel") -> "channel-not-found"
      [] status.code = "INVALID_ARGUMENT" -> "invalid-argument"
      [] status.code = "UNAVAILABLE" -> "unavailable"
      [] OTHER -> "unknown"
=============================================================================
