-------------------------- MODULE CliSessionProofs --------------------------
(***************************************************************************)
(* The CLI's session for any number of channels, subscription threads and  *)
(* faults.                                                                 *)
(***************************************************************************)
EXTENDS CliSession, FiniteSetTheorems, TLAPS

-----------------------------------------------------------------------------
(* Errors survive the two mappings.                                        *)

Vocabulary ==
    {"channel", "not", "found", "already", "exists", "client", "a", "member", "message", "is",
     "empty", "must", "start", "with", "slash", "too", "long", "invalid", "username", "name",
     "(allowed ...)"}

\* The errors the server's refusals carry.
Refusals == {"ClientNotFound", "NotAMember", "MessageTooLong", "InvalidChannelName",
             "ChannelAlreadyExists"}

\* Those the client looks for when it meets one of them.
Candidates == {"ClientNotFound", "NotAMember", "ChannelAlreadyExists", "ClientAlreadyExists",
               "InvalidUsername", "MessageTooLong", "MessageEmpty", "MessageInvalidPrefix"}

LEMMA MessageOf ==
    /\ error_message["ClientNotFound"] = <<"client", "not", "found">>
    /\ error_message["NotAMember"] = <<"not", "a", "member">>
    /\ error_message["ChannelAlreadyExists"] = <<"channel", "already", "exists">>
    /\ error_message["ClientAlreadyExists"] = <<"client", "already", "exists">>
    /\ error_message["InvalidUsername"] = <<"invalid", "username">>
    /\ error_message["MessageTooLong"] = <<"message", "too", "long">>
    /\ error_message["MessageEmpty"] = <<"message", "is", "empty">>
    /\ error_message["MessageInvalidPrefix"] =
          <<"message", "must", "not", "start", "with", "slash">>
    /\ error_message["InvalidChannelName"] = <<"invalid", "channel", "name", "(allowed ...)">>
BY DEF error_message

\* The first two words of each.
LEMMA WordsOf ==
    /\ error_message["ClientNotFound"][1] = "client" /\ error_message["ClientNotFound"][2] = "not"
    /\ error_message["NotAMember"][1] = "not" /\ error_message["NotAMember"][2] = "a"
    /\ error_message["ChannelAlreadyExists"][1] = "channel" /\ error_message["ChannelAlreadyExists"][2] = "already"
    /\ error_message["ClientAlreadyExists"][1] = "client" /\ error_message["ClientAlreadyExists"][2] = "already"
    /\ error_message["InvalidUsername"][1] = "invalid" /\ error_message["InvalidUsername"][2] = "username"
    /\ error_message["MessageTooLong"][1] = "message" /\ error_message["MessageTooLong"][2] = "too"
    /\ error_message["MessageEmpty"][1] = "message" /\ error_message["MessageEmpty"][2] = "is"
    /\ error_message["MessageInvalidPrefix"][1] = "message" /\ error_message["MessageInvalidPrefix"][2] = "must"
    /\ error_message["InvalidChannelName"][1] = "invalid" /\ error_message["InvalidChannelName"][2] = "channel"
<1>1. /\ <<"client", "not", "found">>[1] = "client" /\ <<"client", "not", "found">>[2] = "not"
      /\ <<"not", "a", "member">>[1] = "not" /\ <<"not", "a", "member">>[2] = "a"
      /\ <<"channel", "already", "exists">>[1] = "channel"
      /\ <<"channel", "already", "exists">>[2] = "already"
      /\ <<"client", "already", "exists">>[1] = "client"
      /\ <<"client", "already", "exists">>[2] = "already"
      /\ <<"invalid", "username">>[1] = "invalid" /\ <<"invalid", "username">>[2] = "username"
  OBVIOUS
<1>2. /\ <<"message", "too", "long">>[1] = "message" /\ <<"message", "too", "long">>[2] = "too"
      /\ <<"message", "is", "empty">>[1] = "message" /\ <<"message", "is", "empty">>[2] = "is"
      /\ <<"message", "must", "not", "start", "with", "slash">>[1] = "message"
      /\ <<"message", "must", "not", "start", "with", "slash">>[2] = "must"
      /\ <<"invalid", "channel", "name", "(allowed ...)">>[1] = "invalid"
      /\ <<"invalid", "channel", "name", "(allowed ...)">>[2] = "channel"
  OBVIOUS
<1> QED BY <1>1, <1>2, MessageOf, Zenon

LEMMA TwoWords == \A f \in Candidates : 1 \in 1..Len(error_message[f]) /\ 2 \in 1..Len(error_message[f])
<1>1. /\ Len(<<"client", "not", "found">>) = 3 /\ Len(<<"not", "a", "member">>) = 3
      /\ Len(<<"channel", "already", "exists">>) = 3 /\ Len(<<"client", "already", "exists">>) = 3
      /\ Len(<<"invalid", "username">>) = 2 /\ Len(<<"message", "too", "long">>) = 3
      /\ Len(<<"message", "is", "empty">>) = 3
      /\ Len(<<"message", "must", "not", "start", "with", "slash">>) = 6
  OBVIOUS
<1>2. \A f \in Candidates : Len(error_message[f]) \in {2, 3, 6}
  BY <1>1, MessageOf DEF Candidates
<1>3. \A n \in {2, 3, 6} : 1 \in 1..n /\ 2 \in 1..n
  OBVIOUS
<1> QED BY <1>2, <1>3, Zenon

LEMMA MessagesAreWords ==
    \A e \in Refusals \cup Candidates : error_message[e] \in Seq(Vocabulary)
<1>1. /\ <<"client", "not", "found">> \in Seq(Vocabulary)
      /\ <<"not", "a", "member">> \in Seq(Vocabulary)
      /\ <<"channel", "already", "exists">> \in Seq(Vocabulary)
      /\ <<"client", "already", "exists">> \in Seq(Vocabulary)
      /\ <<"invalid", "username">> \in Seq(Vocabulary)
  BY DEF Vocabulary
<1>2. /\ <<"message", "too", "long">> \in Seq(Vocabulary)
      /\ <<"message", "is", "empty">> \in Seq(Vocabulary)
      /\ <<"message", "must", "not", "start", "with", "slash">> \in Seq(Vocabulary)
      /\ <<"invalid", "channel", "name", "(allowed ...)">> \in Seq(Vocabulary)
  BY DEF Vocabulary
<1> QED BY <1>1, <1>2, MessageOf DEF Refusals, Candidates

LEMMA StartsWithItself ==
    ASSUME NEW S, NEW m \in Seq(S)
    PROVE  StartsWith(m, m)
<1>1. SubSeq(m, 1, Len(m)) = m
  OBVIOUS
<1> QED BY <1>1 DEF StartsWith

LEMMA DifferAt ==
    ASSUME NEW S, NEW m \in Seq(S), NEW w \in Seq(S), NEW i \in 1..Len(w), m[i] # w[i]
    PROVE  ~StartsWith(m, w)
<1> SUFFICES ASSUME StartsWith(m, w) PROVE FALSE
  OBVIOUS
<1>1. SubSeq(m, 1, Len(w)) = w /\ Len(w) \in Nat /\ Len(w) <= Len(m)
  BY DEF StartsWith
<1>2. SubSeq(m, 1, Len(w))[i] = m[i]
  BY <1>1
<1> QED BY <1>1, <1>2

\* Two messages that differ in one of the first two words.
LEMMA Apart ==
    ASSUME NEW e \in Refusals, NEW f \in Candidates,
           \/ error_message[e][1] # error_message[f][1]
           \/ error_message[e][2] # error_message[f][2]
    PROVE  ~StartsWith(error_message[e], error_message[f])
<1>1. error_message[e] \in Seq(Vocabulary) /\ error_message[f] \in Seq(Vocabulary)
  BY MessagesAreWords
<1> QED BY <1>1, TwoWords, DifferAt

\* The client finds the error whose message starts the status.
LEMMA Finds ==
    ASSUME NEW e \in Refusals, e \in Recognised(errorToStatus(e).code),
           \A f \in Recognised(errorToStatus(e).code) :
              f # e => ~StartsWith(error_message[e], error_message[f])
    PROVE  statusToError(errorToStatus(e)) = e
<1> DEFINE found == {f \in Recognised(errorToStatus(e).code) :
                        StartsWith(errorToStatus(e).message, error_message[f])}
<1>1. errorToStatus(e).message = error_message[e]
  BY DEF errorToStatus
<1>2. StartsWith(error_message[e], error_message[e])
  BY MessagesAreWords, StartsWithItself
<1>3. found = {e}
  BY <1>1, <1>2
<1> QED BY <1>3 DEF statusToError

LEMMA RefusalsSurvive ==
    ASSUME NEW e \in Refusals
    PROVE  statusToError(errorToStatus(e)) = e
<1> USE WordsOf
<1>1. CASE e \in {"ClientNotFound", "NotAMember"}
  <2>1. errorToStatus(e).code = "NOT_FOUND"
    BY <1>1 DEF errorToStatus
  <2>2. Recognised("NOT_FOUND") = {"ClientNotFound", "NotAMember"}
    BY DEF Recognised
  <2>3. ASSUME NEW f \in {"ClientNotFound", "NotAMember"}, f # e
        PROVE  f \in Candidates /\ error_message[e][1] # error_message[f][1]
    BY <2>3, <1>1 DEF Candidates
  <2> QED BY <2>1, <2>2, <2>3, <1>1, Apart, Finds
<1>2. CASE e = "ChannelAlreadyExists"
  <2>1. errorToStatus(e).code = "ALREADY_EXISTS"
    BY <1>2 DEF errorToStatus
  <2>2. Recognised("ALREADY_EXISTS") = {"ChannelAlreadyExists", "ClientAlreadyExists"}
    BY DEF Recognised
  <2>3. ASSUME NEW f \in {"ChannelAlreadyExists", "ClientAlreadyExists"}, f # e
        PROVE  f \in Candidates /\ error_message[e][1] # error_message[f][1]
    BY <2>3, <1>2 DEF Candidates
  <2> QED BY <2>1, <2>2, <2>3, <1>2, Apart, Finds
<1> DEFINE R == {"InvalidUsername", "MessageTooLong", "MessageEmpty", "MessageInvalidPrefix"}
<1>3. Recognised("INVALID_ARGUMENT") = R
  BY DEF Recognised
<1>4. CASE e = "MessageTooLong"
  <2>1. errorToStatus(e).code = "INVALID_ARGUMENT"
    BY <1>4 DEF errorToStatus
  <2>2. ASSUME NEW f \in R, f # e
        PROVE  /\ f \in Candidates
               /\ \/ error_message[e][1] # error_message[f][1]
                  \/ error_message[e][2] # error_message[f][2]
    BY <2>2, <1>4 DEF Candidates
  <2> QED BY <2>1, <2>2, <1>3, <1>4, Apart, Finds
<1>5. CASE e = "InvalidChannelName"
  <2>1. errorToStatus(e).code = "INVALID_ARGUMENT" /\ errorToStatus(e).message = error_message[e]
    BY <1>5 DEF errorToStatus
  <2>2. ASSUME NEW f \in R
        PROVE  /\ f \in Candidates
               /\ \/ error_message[e][1] # error_message[f][1]
                  \/ error_message[e][2] # error_message[f][2]
    BY <2>2, <1>5 DEF Candidates
  <2>3. \A f \in R : ~StartsWith(error_message[e], error_message[f])
    BY <2>2, Apart
  <2>4. statusToError(errorToStatus(e)) = Otherwise("INVALID_ARGUMENT")
    BY <2>1, <2>3, <1>3 DEF statusToError
  <2> QED BY <2>4, <1>5 DEF Otherwise
<1> QED BY <1>1, <1>2, <1>4, <1>5 DEF Refusals

LEMMA LostSurvives == statusToError(Unavailable) = "NetworkError"
BY DEF statusToError, Unavailable, Recognised, Otherwise

LEMMA TheseAreErrors == Refusals \cup {"NetworkError", "ChannelNotFound"} \subseteq Errors
BY DEF Refusals, Errors, error_message

-----------------------------------------------------------------------------
(* The inductive invariant.                                                *)

ServerOK ==
    /\ alive \in BOOLEAN
    /\ registered \in Threads \cup {None}
    /\ names \subseteq Channels /\ General \in names

UiOK ==
    /\ ui \in [pc : {"connect", "idle", "join", "joined", "list", "created", "exited"},
               channel : Channels \cup {None}]
    /\ ui.pc \in {"join", "joined"} => ui.channel \in names
    /\ active \in names \cup {None}

SubOK ==
    sub \in [Threads -> [pc : {"none", "spawned", "registered", "open", "broken", "ended"},
                         channel : names \cup {None}]]

MembershipOK ==
    /\ members \subseteq been /\ joined \subseteq been
    /\ been \subseteq names /\ overwritten \subseteq been

ToastOK == toast = cause /\ toast \in Errors \cup {"no channel", None}

HistoryOK == warned \in BOOLEAN /\ hurried \in BOOLEAN

FaultsOK == faults \in 0..MaxFaults

\* Where no other client's save had the last word, the channel and the session
\* agree on the membership; a session never records two channels.
Agreement ==
    /\ \A h \in Channels \ overwritten : h \in members <=> h \in joined
    /\ \A h, k \in joined : h = k

\* NoSilentDivergence of the session's record, with the moment between the
\* server's join and the client's, when the client has not yet taken the new
\* channel.
Divergence ==
    /\ (alive /\ overwritten = {} /\ ui.pc # "joined" /\ joined # Believed) => warned
    /\ (alive /\ ui.pc = "joined") => joined = {ui.channel}
    /\ ui.pc = "connect" => active = None /\ been = {}

IInv ==
    /\ ServerOK /\ MembershipOK /\ UiOK /\ SubOK /\ ToastOK /\ HistoryOK
    /\ Agreement /\ Divergence

-----------------------------------------------------------------------------
(* Each part is kept.                                                      *)

LEMMA InitIInv == Init => IInv
<1> SUFFICES ASSUME Init PROVE IInv
  OBVIOUS
<1>1. ServerOK
  BY SessionAssumption DEF Init, ServerOK
<1>2. UiOK
  BY DEF Init, UiOK
<1>3. SubOK
  BY DEF Init, SubOK
<1>4. ToastOK /\ HistoryOK /\ MembershipOK /\ Agreement /\ Divergence
  BY DEF Init, ToastOK, HistoryOK, MembershipOK, Agreement, Divergence
<1> QED BY <1>1, <1>2, <1>3, <1>4 DEF IInv

LEMMA ToastStep == ToastOK /\ [Next]_vars => ToastOK'
<1> SUFFICES ASSUME ToastOK, [Next]_vars PROVE ToastOK'
  OBVIOUS
<1>1. ASSUME NEW e \in Refusals, ShowRefusal(e) PROVE ToastOK'
  BY <1>1, RefusalsSurvive, TheseAreErrors DEF ShowRefusal, ToastOK
<1>2. ASSUME ShowLost PROVE ToastOK'
  BY <1>2, LostSurvives, TheseAreErrors DEF ShowLost, ToastOK
<1>3. ASSUME NEW e \in {"no channel", "ChannelNotFound"}, ShowOwn(e) PROVE ToastOK'
  BY <1>3, TheseAreErrors DEF ShowOwn, ToastOK
<1>4. ASSUME ShowNothing PROVE ToastOK'
  BY <1>4 DEF ShowNothing, ToastOK
<1>5. ASSUME ShowInfo PROVE ToastOK'
  BY <1>5 DEF ShowInfo, ToastOK
<1>6. \/ ShowLost \/ ShowNothing \/ ShowInfo
      \/ \E e \in Refusals : ShowRefusal(e)
      \/ \E e \in {"no channel", "ChannelNotFound"} : ShowOwn(e)
  <2> USE DEF Refusals
  <2>1. CASE Connect \/ Quit \/ Expire \/ UNCHANGED vars
    BY <2>1 DEF Connect, Quit, Expire, vars, ShowNothing
  <2>2. CASE Send \/ JoinCall \/ Leave
    BY <2>2 DEF Send, JoinCall, Leave
  <2>3. CASE Joined \/ List
    BY <2>3 DEF Joined, List
  <2>4. ASSUME NEW h \in Channels, JoinList(h) \/ Create(h) \/ Overwrite(h)
        PROVE  \/ ShowLost \/ ShowNothing
               \/ \E e \in Refusals : ShowRefusal(e)
               \/ \E e \in {"no channel", "ChannelNotFound"} : ShowOwn(e)
    BY <2>4 DEF JoinList, Create, Overwrite, ShowNothing
  <2>5. ASSUME NEW i \in Threads, Register(i) \/ Authorise(i) \/ Break(i) \/ Cleanup(i)
        PROVE  ShowLost \/ ShowNothing \/ \E e \in Refusals : ShowRefusal(e)
    BY <2>5 DEF Register, Authorise, Break, Cleanup, ShowNothing
  <2> QED BY <2>1, <2>2, <2>3, <2>4, <2>5 DEF Next
<1> QED BY <1>1, <1>2, <1>3, <1>4, <1>5, <1>6

LEMMA FaultsStep == FaultsOK /\ [Next]_vars => FaultsOK'
<1> SUFFICES ASSUME FaultsOK, [Next]_vars PROVE FaultsOK'
  OBVIOUS
<1>1. faults' = faults \/ (faults < MaxFaults /\ faults' = faults + 1)
  BY DEF Next, vars, Fault, Connect, Send, JoinList, JoinCall, Joined, Create, List, Leave, Quit,
         Register, Authorise, Break, Cleanup, Expire, Overwrite
<1> QED BY <1>1, SessionAssumption DEF FaultsOK

LEMMA HistoryStep == HistoryOK /\ [Next]_vars => HistoryOK'
<1> SUFFICES ASSUME HistoryOK, [Next]_vars PROVE HistoryOK'
  OBVIOUS
<1>1. CASE Connect \/ Send \/ JoinCall \/ List \/ Leave \/ Quit \/ Expire \/ UNCHANGED vars
  BY <1>1 DEF HistoryOK, history, vars, Connect, Send, JoinCall, List, Leave, Quit, Expire
<1>2. CASE Joined
  BY <1>2 DEF HistoryOK, Joined, Spawn
<1>3. ASSUME NEW h \in Channels, JoinList(h) \/ Create(h) \/ Overwrite(h) PROVE HistoryOK'
  BY <1>3 DEF HistoryOK, history, JoinList, Create, Overwrite
<1>4. ASSUME NEW i \in Threads, Register(i) \/ Authorise(i) \/ Break(i) \/ Cleanup(i)
      PROVE  HistoryOK'
  BY <1>4 DEF HistoryOK, history, Register, Authorise, Break, Cleanup
<1> QED BY <1>1, <1>2, <1>3, <1>4 DEF Next

\* The channels created are never removed.
LEMMA NamesGrow == IInv /\ [Next]_vars => names \subseteq names' /\ names' \subseteq Channels
<1> SUFFICES ASSUME IInv, [Next]_vars PROVE names \subseteq names' /\ names' \subseteq Channels
  OBVIOUS
<1>1. names \subseteq Channels
  BY DEF IInv, ServerOK
<1>2. ASSUME NEW h \in Channels, Create(h) PROVE names' \subseteq names \cup {h} /\ names \subseteq names'
  BY <1>2 DEF Create
<1>3. CASE \E h \in Channels : Create(h)
  BY <1>1, <1>2, <1>3
<1>4. CASE ~\E h \in Channels : Create(h)
  <2>1. names' = names
    BY <1>4 DEF Next, vars, server, Connect, Send, JoinList, JoinCall, Joined, List, Leave, Quit,
                Register, Authorise, Break, Cleanup, Expire, Overwrite
  <2> QED BY <2>1, <1>1
<1> QED BY <1>3, <1>4

LEMMA ServerStep == IInv /\ [Next]_vars => ServerOK'
<1> SUFFICES ASSUME IInv, [Next]_vars PROVE ServerOK'
  OBVIOUS
<1>0. ServerOK /\ UiOK /\ names \subseteq names' /\ names' \subseteq Channels
  BY NamesGrow DEF IInv
<1>1. alive' \in BOOLEAN
  BY <1>0 DEF ServerOK, Next, vars, server, Connect, Send, JoinList, JoinCall, Joined, Create, List,
         Leave, Quit, Register, Authorise, Break, Cleanup, Expire, Overwrite, ServeRemoval
<1>2. registered' \in Threads \cup {None}
  BY <1>0 DEF ServerOK, Next, vars, server, Connect, Send, JoinList, JoinCall, Joined, Create, List,
         Leave, Quit, Register, Authorise, Break, Cleanup, Expire, Overwrite
<1> QED BY <1>0, <1>1, <1>2 DEF ServerOK

\* Nothing but these changes the membership, and only to these is it told apart.
LEMMA MembershipSteps ==
    ASSUME [Next]_vars
    PROVE  \/ UNCHANGED membership
           \/ JoinCall /\ ServeJoin(ui.channel)
           \/ Leave /\ ServeLeave(active)
           \/ (Quit \/ Expire) /\ ServeRemoval
           \/ \E h \in Channels : Overwrite(h)
<1>1. CASE Connect \/ Send \/ Joined \/ List \/ UNCHANGED vars
  BY <1>1 DEF Connect, Send, Joined, List, vars, server
<1>2. CASE JoinCall
  BY <1>2 DEF JoinCall
<1>3. CASE Leave
  BY <1>3 DEF Leave
<1>4. CASE Quit \/ Expire
  BY <1>4 DEF Quit, Expire
<1>5. ASSUME NEW h \in Channels, JoinList(h) \/ Create(h) PROVE UNCHANGED membership
  BY <1>5 DEF JoinList, Create, server
<1>6. ASSUME NEW i \in Threads, Register(i) \/ Authorise(i) \/ Break(i) \/ Cleanup(i)
      PROVE  UNCHANGED membership
  BY <1>6 DEF Register, Authorise, Break, Cleanup, server
<1> QED BY <1>1, <1>2, <1>3, <1>4, <1>5, <1>6 DEF Next

LEMMA MembershipStep == IInv /\ [Next]_vars => MembershipOK' /\ Agreement'
<1> SUFFICES ASSUME IInv, [Next]_vars PROVE MembershipOK' /\ Agreement'
  OBVIOUS
<1>0. MembershipOK /\ Agreement /\ UiOK /\ names \subseteq names' /\ names \subseteq Channels
  BY NamesGrow DEF IInv, ServerOK
<1> USE <1>0 DEF MembershipOK, Agreement
<1>1. CASE UNCHANGED membership
  BY <1>1 DEF membership
<1>2. CASE JoinCall /\ ServeJoin(ui.channel)
  <2>1. ui.channel \in names
    BY <1>2 DEF JoinCall, UiOK
  <2>2. MembershipOK'
    BY <1>2, <2>1 DEF ServeJoin
  <2>3. ASSUME NEW h \in Channels \ overwritten' PROVE h \in members' <=> h \in joined'
    <3>1. CASE h \in joined \cup {ui.channel}
      BY <1>2, <3>1 DEF ServeJoin
    <3>2. CASE h \notin joined \cup {ui.channel}
      BY <1>2, <3>2 DEF ServeJoin
    <3> QED BY <3>1, <3>2
  <2> QED BY <1>2, <2>2, <2>3 DEF ServeJoin
<1>3. CASE ServeLeave(active)
  BY <1>3 DEF ServeLeave
<1>4. CASE ServeRemoval
  BY <1>4 DEF ServeRemoval
<1>5. ASSUME NEW h \in Channels, Overwrite(h) PROVE MembershipOK' /\ Agreement'
  BY <1>5 DEF Overwrite
<1> QED BY <1>1, <1>2, <1>3, <1>4, <1>5, MembershipSteps

LEMMA UiStep == IInv /\ [Next]_vars => UiOK'
<1> SUFFICES ASSUME IInv, [Next]_vars PROVE UiOK'
  OBVIOUS
<1>0. ServerOK /\ UiOK /\ names \subseteq names' /\ names' \subseteq Channels
  BY NamesGrow DEF IInv
<1> USE <1>0 DEF UiOK, Goto
<1>1. CASE ui' = ui /\ active' \in {active, None}
  BY <1>1
<1>2. CASE Connect
  BY <1>2 DEF Connect
<1>3. CASE JoinCall
  BY <1>3 DEF JoinCall, server
<1>4. CASE Joined
  BY <1>4 DEF Joined, server
<1>5. CASE List
  BY <1>5 DEF List, server
<1>6. CASE Quit
  BY <1>6 DEF Quit
<1>7. ASSUME NEW h \in Channels, JoinList(h) PROVE UiOK'
  BY <1>7 DEF JoinList, server
<1>8. ASSUME NEW h \in Channels, Create(h) \/ Overwrite(h) PROVE UiOK'
  BY <1>1, <1>8 DEF Create, Overwrite
<1>9. CASE Send \/ Leave \/ Expire \/ UNCHANGED vars
  BY <1>1, <1>9 DEF Send, Leave, Expire, vars
<1>10. ASSUME NEW i \in Threads, Register(i) \/ Authorise(i) \/ Break(i) \/ Cleanup(i)
       PROVE  UiOK'
  BY <1>1, <1>10 DEF Register, Authorise, Break, Cleanup
<1> QED BY <1>2, <1>3, <1>4, <1>5, <1>6, <1>7, <1>8, <1>9, <1>10 DEF Next

\* A thread's state changes, or the channels it may name grow.
LEMMA SubStep == IInv /\ [Next]_vars => SubOK'
<1> SUFFICES ASSUME IInv, [Next]_vars PROVE SubOK'
  OBVIOUS
<1>0. SubOK /\ UiOK /\ names \subseteq names'
  BY NamesGrow DEF IInv
<1>1. CASE sub' = sub
  BY <1>0, <1>1 DEF SubOK
<1>2. ASSUME NEW i \in Threads,
             \E pc \in {"registered", "open", "broken", "ended"} : SubAt(i, pc)
      PROVE  SubOK'
  BY <1>0, <1>2 DEF SubOK, SubAt
<1>3. CASE Joined
  <2>1. ui.channel \in names
    BY <1>0, <1>3 DEF Joined, UiOK
  <2>2. CASE sub' = [sub EXCEPT ![Cardinality(Started) + 1] = [pc |-> "spawned", channel |-> ui.channel]]
    BY <2>1, <2>2, <1>0 DEF SubOK
  <2> QED BY <2>2, <1>1, <1>3 DEF Joined, Spawn
<1>4. CASE Quit
  BY <1>0, <1>4 DEF Quit, SubOK
<1>5. ASSUME NEW i \in Threads, Register(i) \/ Authorise(i) \/ Break(i) \/ Cleanup(i)
      PROVE  SubOK'
  BY <1>2, <1>5 DEF Register, Authorise, Break, Cleanup
<1>6. ASSUME NEW h \in Channels, JoinList(h) \/ Create(h) \/ Overwrite(h) PROVE SubOK'
  BY <1>1, <1>6 DEF JoinList, Create, Overwrite
<1>7. CASE Connect \/ Send \/ JoinCall \/ List \/ Leave \/ Expire \/ UNCHANGED vars
  BY <1>1, <1>7 DEF Connect, Send, JoinCall, List, Leave, Expire, vars
<1> QED BY <1>3, <1>4, <1>5, <1>6, <1>7 DEF Next

LEMMA DivergenceStep == IInv /\ [Next]_vars => Divergence'
<1> SUFFICES ASSUME IInv, [Next]_vars PROVE Divergence'
  OBVIOUS
<1>0. /\ Divergence /\ Agreement /\ MembershipOK
      /\ ui.pc \in {"connect", "idle", "join", "joined", "list", "created", "exited"}
  BY DEF IInv, UiOK
<1> USE <1>0 DEF Divergence, Goto, Believed
<1>1. CASE Connect
  BY <1>1 DEF Connect, history, membership, MembershipOK
<1>2. CASE JoinCall
  <2>1. CASE ui'.pc = "joined"
    BY <1>2, <2>1 DEF JoinCall, ServeJoin
  <2>2. CASE ui'.pc # "joined"
    BY <1>2, <2>2 DEF JoinCall
  <2> QED BY <2>1, <2>2
<1>3. CASE Joined
  <2>1. ui.channel # None
    BY <1>3, SessionAssumption DEF IInv, UiOK, ServerOK, Joined
  <2> QED BY <1>3, <2>1 DEF Joined, server, membership
<1>4. CASE List
  BY <1>4 DEF List, server, membership, history
<1>5. CASE Leave
  <2>1. UNCHANGED <<alive, ui>> /\ ui.pc = "idle" /\ active' = None
    BY <1>5 DEF Leave
  <2>2. CASE active = None
    <3>1. UNCHANGED <<joined, been, overwritten, warned>>
      BY <1>5, <2>2 DEF Leave, membership
    <3>2. alive' = alive /\ ui' = ui /\ active' = active
      BY <2>1, <2>2
    <3> QED BY <3>1, <3>2
  <2>3. CASE active # None /\ ~warned'
    <3>1. active \in members /\ ServeLeave(active)
      BY <1>5, <2>3 DEF Leave
    <3>2. active \in Channels
      BY <3>1 DEF IInv, MembershipOK, ServerOK
    <3>3. overwritten' = {} => joined' = {}
      BY <3>1, <3>2 DEF ServeLeave, Agreement
    <3> QED BY <2>1, <3>3
  <2>4. CASE warned'
    BY <2>1, <2>4
  <2> QED BY <2>2, <2>3, <2>4
<1>6. CASE Quit
  BY <1>6 DEF Quit, ServeRemoval, membership, history
<1>7. CASE Expire
  BY <1>7 DEF Expire, ServeRemoval, history
<1>8. CASE Send \/ UNCHANGED vars
  <2>1. UNCHANGED <<alive, joined, been, overwritten, ui, active, warned>>
    BY <1>8 DEF Send, server, membership, history, vars
  <2> QED BY <2>1
<1>9. ASSUME NEW h \in Channels, JoinList(h) PROVE Divergence'
  BY <1>9 DEF JoinList, server, membership
<1>10. ASSUME NEW h \in Channels, Create(h) PROVE Divergence'
  BY <1>10 DEF Create, history, membership
<1>11. ASSUME NEW i \in Threads, Register(i) \/ Authorise(i) \/ Break(i) \/ Cleanup(i)
       PROVE  Divergence'
  <2>1. UNCHANGED <<alive, joined, been, overwritten, ui, active, warned>>
    BY <1>11 DEF Register, Authorise, Break, Cleanup, server, membership, history
  <2> QED BY <2>1
<1>12. ASSUME NEW h \in Channels, Overwrite(h) PROVE Divergence'
  <2>1. UNCHANGED <<alive, joined, been, ui, active, warned>> /\ overwritten' # {}
    BY <1>12 DEF Overwrite, history
  <2> QED BY <2>1
<1> QED
  BY <1>1, <1>2, <1>3, <1>4, <1>5, <1>6, <1>7, <1>8, <1>9, <1>10, <1>11, <1>12 DEF Next

LEMMA Invariant == Spec => []IInv
<1>1. IInv /\ [Next]_vars => IInv'
  BY ServerStep, MembershipStep, UiStep, SubStep, ToastStep, HistoryStep, DivergenceStep DEF IInv
<1> QED BY <1>1, InitIInv, PTL DEF Spec

LEMMA FaultsCorrect == Spec => []FaultsOK
<1>1. Init => FaultsOK
  BY SessionAssumption DEF Init, FaultsOK
<1> QED BY <1>1, FaultsStep, PTL DEF Spec

\* The server's view of the client, the session and its threads stay well typed;
\* the active channel and the threads' channels are channels that exist.
THEOREM TypeCorrect == Spec => []TypeOK
<1>1. IInv /\ FaultsOK => TypeOK
  BY DEF IInv, ServerOK, MembershipOK, UiOK, SubOK, ToastOK, HistoryOK, FaultsOK, TypeOK
<1> QED BY <1>1, Invariant, FaultsCorrect, PTL

\* For any number of channels, threads, faults and stale saves: unless another
\* client's save had the last word on one of this client's memberships, joinChannel
\* and leaveChannel never leave client and server apart without an error having
\* been shown.
THEOREM NoSilentDivergenceCorrect == Spec => []NoSilentDivergence
<1>1. IInv => NoSilentDivergence
  <2> SUFFICES ASSUME IInv, ui.pc = "idle", alive, overwritten = {}, members # Believed
               PROVE  warned
    BY DEF NoSilentDivergence
  <2>1. members = joined
    BY DEF IInv, Agreement, MembershipOK, ServerOK
  <2> QED BY <2>1 DEF IInv, Divergence
<1> QED BY <1>1, Invariant, PTL

\* Every error that reaches the status line through errorToStatus and
\* statusToError is the one that occurred.
THEOREM ToastIsCauseCorrect == Spec => []ToastIsCause
<1>1. IInv => ToastIsCause
  BY DEF IInv, ToastOK, ToastIsCause
<1> QED BY <1>1, Invariant, PTL

-----------------------------------------------------------------------------
(* The stream that is heard.  Threads are started in order, and as long as  *)
(* nothing fails and no join overtakes a subscription, only the last one    *)
(* can still be waiting for the server.                                     *)

Last == Cardinality(Started)

InTurn == Last \in 0..MaxSubs /\ Started = 1..Last

Undisturbed == faults = 0 /\ ~hurried

\* While the server has the client in the active channel, the last thread's
\* stream is that channel's, and it is registered or about to be.
Heard ==
    /\ active # None
    /\ ui.pc # "exited"
    /\ ~(ui.pc = "joined" /\ ui.channel # active)
    => /\ Last \in Threads /\ sub[Last].channel = active
       /\ \/ sub[Last].pc = "spawned"
          \/ sub[Last].pc \in {"registered", "open"} /\ registered = Last

Quiet ==
    Undisturbed =>
       /\ \A i \in Threads : Starting(i) => i = Last
       /\ \A i \in Threads : sub[i].pc # "broken"
       /\ ui.pc \notin {"connect", "exited"} => alive
       /\ overwritten = {}
       /\ ui.pc \notin {"joined", "exited"} => members = Believed
       /\ Heard

HInv == InTurn /\ Quiet

LEMMA LastFacts ==
    ASSUME NEW S, NEW n \in Nat, S = 1..n
    PROVE  Cardinality(S) = n
BY FS_Interval

\* A step that starts no thread leaves the order of the threads alone.
LEMMA SameStarted ==
    ASSUME Started' = Started
    PROVE  Last' = Last /\ (InTurn => InTurn')
BY DEF Last, InTurn

\* SubAt moves one started thread on.
LEMMA SubAtFacts ==
    ASSUME SubOK, NEW i \in Threads, sub[i].pc # "none",
           NEW pc \in {"registered", "open", "broken", "ended"}, SubAt(i, pc)
    PROVE  /\ sub'[i].pc = pc /\ sub'[i].channel = sub[i].channel
           /\ \A j \in Threads \ {i} : sub'[j] = sub[j]
           /\ Started' = Started
<1>1. /\ sub'[i].pc = pc /\ sub'[i].channel = sub[i].channel
      /\ \A j \in Threads \ {i} : sub'[j] = sub[j]
  BY DEF SubOK, SubAt
<1> QED BY <1>1 DEF Started

LEMMA InitHInv == Init => HInv
<1> SUFFICES ASSUME Init PROVE HInv
  OBVIOUS
<1>1. \A i \in Threads : sub[i].pc = "none"
  BY DEF Init
<1>2. Started = {}
  BY <1>1 DEF Started
<1>3. Started = 1..0 /\ 0 \in Nat
  BY <1>2
<1>4. Last = 0
  BY <1>3, LastFacts DEF Last
<1>5. InTurn
  BY <1>3, <1>4, SessionAssumption DEF InTurn
<1>6. Quiet
  BY <1>1 DEF Init, Quiet, Heard, Starting, Believed
<1> QED BY <1>5, <1>6 DEF HInv

\* A step that leaves the threads alone.
LEMMA QuietSame ==
    ASSUME HInv, sub' = sub, hurried' = hurried, faults' = 0 => faults = 0,
           Undisturbed /\ Undisturbed' =>
              /\ ui'.pc \notin {"connect", "exited"} => alive'
              /\ overwritten' = {}
              /\ ui'.pc \notin {"joined", "exited"} => members' = Believed'
              /\ Heard => Heard'
    PROVE  HInv'
<1>1. Started' = Started
  BY DEF Started
<1>2. InTurn' /\ Last' = Last
  BY <1>1, SameStarted DEF HInv
<1>3. Undisturbed' => Undisturbed
  BY DEF Undisturbed
<1>4. Quiet'
  BY <1>2, <1>3 DEF HInv, Quiet, Starting
<1> QED BY <1>2, <1>4 DEF HInv

\* Faults are counted, so a fault ends the undisturbed part of a run.
LEMMA FaultCounts == FaultsOK /\ Fault => faults' # 0
<1> SUFFICES ASSUME FaultsOK, Fault PROVE faults' # 0
  OBVIOUS
<1>1. faults \in Nat /\ faults' = faults + 1
  BY SessionAssumption DEF FaultsOK, Fault
<1> QED BY <1>1

\* Heard depends on the threads, the active channel and the UI thread only.
LEMMA HeardSame ==
    ASSUME sub' = sub, active' = active, registered' = registered, Heard,
           \/ ui'.pc = "exited"
           \/ ui'.pc = "joined" /\ ui'.channel # active
           \/ ui.pc \notin {"exited", "joined"}
    PROVE  Heard'
<1>1. Last' = Last
  BY DEF Last, Started
<1> QED BY <1>1 DEF Heard

LEMMA HeardNothing ==
    ASSUME active' = None
    PROVE  Heard'
BY DEF Heard

LEMMA CommandHStep ==
    ASSUME IInv, FaultsOK, HInv,
           Connect \/ Send \/ JoinCall \/ List \/ Leave \/ Expire \/ UNCHANGED vars
              \/ \E h \in Channels : JoinList(h) \/ Create(h) \/ Overwrite(h)
    PROVE  HInv'
<1>0. ui.pc \in {"connect", "idle", "join", "joined", "list", "created", "exited"} /\ Divergence
  BY DEF IInv, UiOK
<1>1. CASE Expire
  <2>1. faults' # 0 /\ sub' = sub /\ hurried' = hurried
    BY <1>1, FaultCounts DEF Expire, history
  <2> QED BY <2>1, QuietSame DEF Undisturbed
<1>2. CASE Send \/ UNCHANGED vars
  <2>1. /\ UNCHANGED <<alive, members, overwritten, registered, ui, active, sub, hurried>>
        /\ faults' = faults \/ Fault
    BY <1>2 DEF Send, server, membership, history, vars
  <2>2. Heard => Heard'
    BY <2>1 DEF Heard, Last, Started
  <2>3. /\ faults' = 0 => faults = 0
        /\ Undisturbed =>
              /\ ui'.pc \notin {"connect", "exited"} => alive'
              /\ overwritten' = {}
              /\ ui'.pc \notin {"joined", "exited"} => members' = Believed'
    BY <2>1, FaultCounts DEF HInv, Quiet, Believed
  <2> QED BY <2>1, <2>2, <2>3, QuietSame
<1> DEFINE U == Undisturbed /\ Undisturbed'
<1>3. U => ~Fault
  BY FaultCounts DEF Undisturbed
<1>4. ASSUME Undisturbed PROVE Quiet /\ Heard
                               /\ (ui.pc \notin {"connect", "exited"} => alive)
                               /\ overwritten = {}
                               /\ (ui.pc \notin {"joined", "exited"} => members = Believed)
  BY <1>4 DEF HInv, Quiet
<1>5. CASE Connect
  <2>1. /\ UNCHANGED <<members, overwritten, registered, active, sub, hurried>>
        /\ ui.pc = "connect"
        /\ faults' = faults \/ Fault
        /\ ~Fault => (ui'.pc = "idle" /\ alive') \/ ui'.pc = "exited"
    BY <1>5 DEF Connect, history, membership, Goto
  <2>2. U => (Heard => Heard')
    BY <2>1, HeardSame
  <2> QED BY <2>1, <2>2, <1>3, <1>4, FaultCounts, QuietSame DEF Believed
<1>6. CASE JoinCall
  <2>1. /\ UNCHANGED <<alive, registered, active, sub, hurried>> /\ ui.pc = "join"
        /\ faults' = faults \/ Fault
        /\ ~Fault /\ alive => ui'.pc = "joined" /\ ui'.channel = ui.channel
        /\ overwritten' \subseteq overwritten
    BY <1>6 DEF JoinCall, ServeJoin, membership, Goto
  <2>2. U => (Heard => Heard')
    BY <2>1, HeardSame
  <2> QED BY <2>1, <2>2, <1>3, <1>4, FaultCounts, QuietSame
<1>7. CASE List
  <2>1. /\ UNCHANGED <<alive, members, overwritten, registered, active, sub, hurried>>
        /\ ui.pc \in {"idle", "list", "created"} /\ ui'.pc = "idle"
        /\ faults' = faults \/ Fault
    BY <1>7 DEF List, server, membership, history, Goto
  <2>2. U => (Heard => Heard')
    BY <2>1, HeardSame
  <2> QED BY <2>1, <2>2, <1>3, <1>4, FaultCounts, QuietSame DEF Believed
<1>8. CASE Leave
  <2>1. /\ UNCHANGED <<alive, registered, ui, sub, hurried>> /\ ui.pc = "idle" /\ active' = None
        /\ faults' = faults \/ Fault
        /\ overwritten' = overwritten
        /\ ~Fault /\ alive /\ members = Believed => members' = {}
    BY <1>8 DEF Leave, ServeLeave, membership, Believed
  <2> QED BY <2>1, <1>3, <1>4, FaultCounts, QuietSame, HeardNothing DEF Believed
<1>9. ASSUME NEW h \in Channels, JoinList(h) PROVE HInv'
  <2>1. /\ UNCHANGED <<alive, members, overwritten, registered, active, sub, hurried>>
        /\ ui.pc = "idle" /\ ui'.pc \in {"idle", "join"}
        /\ faults' = faults \/ Fault
    BY <1>9 DEF JoinList, server, membership, Goto
  <2>2. U => (Heard => Heard')
    BY <2>1, HeardSame
  <2> QED BY <2>1, <2>2, <1>3, <1>4, FaultCounts, QuietSame DEF Believed
<1>10. ASSUME NEW h \in Channels, Create(h) PROVE HInv'
  <2>1. /\ UNCHANGED <<alive, members, overwritten, registered, active, sub, hurried>>
        /\ ui.pc = "idle" /\ ui'.pc \in {"idle", "created"}
        /\ faults' = faults \/ Fault
    BY <1>10 DEF Create, history, membership, Goto
  <2>2. U => (Heard => Heard')
    BY <2>1, HeardSame
  <2> QED BY <2>1, <2>2, <1>3, <1>4, FaultCounts, QuietSame DEF Believed
<1>11. ASSUME NEW h \in Channels, Overwrite(h) PROVE HInv'
  <2>1. faults' # 0 /\ sub' = sub /\ hurried' = hurried
    BY <1>11, FaultCounts DEF Overwrite, history
  <2> QED BY <2>1, QuietSame DEF Undisturbed
<1> QED BY <1>1, <1>2, <1>5, <1>6, <1>7, <1>8, <1>9, <1>10, <1>11

\* /quit ends the process, and nothing is claimed any more.
LEMMA QuitHStep ==
    ASSUME IInv, FaultsOK, HInv, Quit
    PROVE  HInv'
<1>0. ui'.pc = "exited" /\ hurried' = hurried
  BY DEF Quit, history, Goto
<1>1. sub' = [i \in Threads |-> IF i \in Started THEN [sub[i] EXCEPT !.pc = "ended"] ELSE sub[i]]
  BY DEF Quit
<1>2. \A i \in Threads : IF i \in Started THEN sub'[i].pc = "ended" ELSE sub'[i].pc = "none"
  BY <1>1 DEF IInv, SubOK, Started
<1>3. Started' = Started
  BY <1>2 DEF Started
<1>4. InTurn'
  BY <1>3, SameStarted DEF HInv
<1>5. \A i \in Threads : ~Starting(i)' /\ sub'[i].pc # "broken"
  BY <1>2 DEF Starting
<1>6. Undisturbed' => overwritten' = {}
  <2>1. /\ overwritten' = overwritten
        /\ faults' = faults \/ Fault
    BY DEF Quit, ServeRemoval, membership
  <2> QED BY <2>1, <1>0, FaultCounts DEF HInv, Quiet, Undisturbed
<1>7. Quiet'
  BY <1>0, <1>5, <1>6 DEF Quiet, Heard
<1> QED BY <1>4, <1>7 DEF HInv

LEMMA JoinedHStep ==
    ASSUME IInv, FaultsOK, HInv, Joined
    PROVE  HInv'
<1>1. /\ UNCHANGED <<alive, members, overwritten, registered, faults>>
      /\ ui.pc = "joined" /\ ui'.pc = "list" /\ active' = ui.channel
  BY DEF Joined, server, membership, Goto
<1>2. Undisturbed => alive /\ overwritten = {} /\ Heard /\ members' = Believed'
  <2> SUFFICES ASSUME Undisturbed PROVE alive /\ overwritten = {} /\ Heard /\ members' = Believed'
    OBVIOUS
  <2>1. alive /\ overwritten = {} /\ Heard
    BY <1>1 DEF HInv, Quiet
  <2>2. joined = {ui.channel} /\ members = joined
    BY <1>1, <2>1 DEF IInv, Divergence, Agreement, MembershipOK, ServerOK
  <2>3. ui.channel # None
    BY <1>1, SessionAssumption DEF IInv, UiOK, ServerOK
  <2> QED BY <1>1, <2>1, <2>2, <2>3 DEF Believed
<1>3. CASE active = ui.channel
  <2>1. UNCHANGED <<sub, hurried, active>>
    BY <1>1, <1>3 DEF Joined
  <2>2. Last' = Last
    BY <2>1 DEF Last, Started
  <2>3. Heard => Heard'
    BY <2>1, <2>2, <1>1, <1>3 DEF Heard
  <2> QED BY <2>1, <2>3, <1>1, <1>2, QuietSame
<1>4. CASE active # ui.channel
  <2> DEFINE n == Last + 1
  <2>1. /\ Last < MaxSubs /\ sub' = [sub EXCEPT ![n] = [pc |-> "spawned", channel |-> ui.channel]]
        /\ hurried' = (hurried \/ \E i \in Started : Starting(i))
    BY <1>4 DEF Joined, Spawn, Last
  <2>2. Last \in Nat /\ Started = 1..Last /\ n \in Threads
    BY <2>1, SessionAssumption DEF HInv, InTurn, Threads
  <2> HIDE DEF n
  <2>3. /\ sub'[n] = [pc |-> "spawned", channel |-> ui.channel]
        /\ \A i \in Threads \ {n} : sub'[i] = sub[i]
    BY <2>1, <2>2 DEF IInv, SubOK
  <2>4. Started' = Started \cup {n}
    BY <2>2, <2>3 DEF Started
  <2>5. Started' = 1..n
    BY <2>2, <2>4 DEF n
  <2>6. Last' = n /\ n \in 0..MaxSubs
    <3>1. n \in Nat
      BY <2>2 DEF n
    <3>2. Last' = n
      BY <2>5, <3>1, LastFacts DEF Last
    <3> QED BY <3>2, <2>2, SessionAssumption DEF Threads
  <2>7. InTurn'
    BY <2>5, <2>6 DEF InTurn
  <2>8. ASSUME Undisturbed' PROVE Undisturbed /\ \A i \in Started : ~Starting(i)
    BY <2>8, <2>1, <1>1 DEF Undisturbed
  <2>9. ASSUME NEW i \in Threads, Starting(i) PROVE i \in Started
    BY <2>9 DEF Starting, Started
  <2>10. ASSUME Undisturbed'
         PROVE  /\ \A i \in Threads : Starting(i)' => i = Last'
                /\ \A i \in Threads : sub'[i].pc # "broken"
    <3>1. \A i \in Threads \ {n} : ~Starting(i)' /\ sub'[i].pc # "broken"
      BY <2>3, <2>8, <2>9, <2>10 DEF Starting, HInv, Quiet
    <3> QED BY <3>1, <2>3, <2>6
  <2>11. Heard'
    BY <1>1, <2>2, <2>3, <2>6 DEF Heard
  <2>12. Quiet'
    BY <1>1, <1>2, <2>8, <2>10, <2>11 DEF Quiet
  <2> QED BY <2>7, <2>12 DEF HInv
<1> QED BY <1>3, <1>4

\* The subscription threads.
LEMMA ThreadHStep ==
    ASSUME IInv, FaultsOK, HInv, NEW i \in Threads,
           Register(i) \/ Authorise(i) \/ Break(i) \/ Cleanup(i)
    PROVE  HInv'
<1>1. PICK pc \in {"registered", "open", "broken", "ended"} : SubAt(i, pc)
  BY DEF Register, Authorise, Break, Cleanup
<1>2. sub[i].pc # "none" /\ UNCHANGED <<alive, members, overwritten, ui, active, hurried>>
  BY DEF Register, Authorise, Break, Cleanup, server, membership, history
<1>3. /\ sub'[i].pc = pc /\ sub'[i].channel = sub[i].channel
      /\ \A j \in Threads \ {i} : sub'[j] = sub[j]
      /\ Started' = Started
  BY <1>1, <1>2, SubAtFacts DEF IInv
<1>4. InTurn' /\ Last' = Last
  BY <1>3, SameStarted DEF HInv
<1>5. ASSUME Undisturbed', Break(i) PROVE FALSE
  BY <1>5, FaultCounts DEF Break, Undisturbed
<1>6. ASSUME Undisturbed' PROVE Undisturbed /\ (Register(i) \/ Authorise(i)) /\ i = Last
  <2>1. faults' = faults \/ Fault
    BY DEF Register, Authorise, Break, Cleanup
  <2>2. Undisturbed
    BY <1>6, <2>1, <1>2, FaultCounts DEF Undisturbed
  <2>3. ~Cleanup(i)
    BY <2>2 DEF Cleanup, HInv, Quiet
  <2>4. Register(i) \/ Authorise(i)
    BY <2>3, <1>5, <1>6
  <2>5. Starting(i)
    BY <2>4 DEF Register, Authorise, Starting
  <2> QED BY <2>2, <2>4, <2>5 DEF HInv, Quiet
<1>7. ASSUME Undisturbed', Heard, active # None, ui.pc # "exited",
             ~(ui.pc = "joined" /\ ui.channel # active)
      PROVE  /\ sub'[i].channel = active
             /\ sub'[i].pc \in {"registered", "open"} /\ registered' = i
  <2>1. Undisturbed /\ (Register(i) \/ Authorise(i)) /\ i = Last /\ sub[i].channel = active
    BY <1>6, <1>7 DEF Heard
  <2>2. CASE Register(i)
    BY <2>1, <2>2, <1>3 DEF Register, SubAt, IInv, SubOK
  <2>3. CASE Authorise(i)
    <3>1. active \in members
      <4>1. CASE ui.pc = "joined"
        BY <2>1, <1>7, <4>1 DEF HInv, Quiet, IInv, Divergence, Agreement, MembershipOK, ServerOK
      <4>2. CASE ui.pc # "joined"
        BY <2>1, <1>7, <4>2 DEF HInv, Quiet, Believed
      <4> QED BY <4>1, <4>2
    <3>2. sub[i].pc = "registered" /\ registered = i
      BY <2>1, <2>3, <1>7 DEF Authorise, Heard
    <3>3. SubAt(i, "open") /\ registered' = registered
      BY <2>1, <2>3, <3>1 DEF Authorise
    <3>4. sub'[i].pc = "open"
      BY <3>3 DEF SubAt, IInv, SubOK
    <3> QED BY <2>1, <3>2, <3>3, <3>4, <1>3
  <2> QED BY <2>1, <2>2, <2>3
<1>8. ASSUME Undisturbed', Heard PROVE Heard'
  BY <1>2, <1>4, <1>6, <1>7, <1>8 DEF Heard
<1>9. ASSUME Undisturbed' PROVE pc # "broken"
  <2>1. sub'[i].pc \in {"registered", "open", "ended"}
    BY <1>6, <1>9, <1>3 DEF Register, Authorise, SubAt, IInv, SubOK
  <2> QED BY <2>1, <1>3
<1>10. Quiet'
  <2> SUFFICES ASSUME Undisturbed' PROVE Quiet'
    BY DEF Quiet
  <2>1. Undisturbed /\ i = Last
    BY <1>6
  <2>2. \A j \in Threads : Starting(j)' => j = Last'
    BY <2>1, <1>3, <1>4 DEF HInv, Quiet, Starting
  <2>3. \A j \in Threads : sub'[j].pc # "broken"
    BY <2>1, <1>3, <1>9 DEF HInv, Quiet
  <2> QED BY <2>1, <2>2, <2>3, <1>2, <1>8 DEF HInv, Quiet, Believed
<1> QED BY <1>4, <1>10 DEF HInv

LEMMA HInvariant == Spec => []HInv
<1>1. IInv /\ FaultsOK /\ HInv /\ [Next]_vars => HInv'
  <2> SUFFICES ASSUME IInv, FaultsOK, HInv, [Next]_vars PROVE HInv'
    OBVIOUS
  <2>1. ASSUME NEW i \in Threads, Register(i) \/ Authorise(i) \/ Break(i) \/ Cleanup(i)
        PROVE  HInv'
    BY <2>1, ThreadHStep
  <2> QED BY <2>1, CommandHStep, QuitHStep, JoinedHStep DEF Next
<1> QED BY <1>1, InitHInv, Invariant, FaultsCorrect, PTL DEF Spec

\* For any number of joins and subscription threads: when nothing was lost and no
\* join overtook a subscription, the stream registered at the server is open and
\* lets every event of the active channel through.
THEOREM HearsActiveCorrect == Spec => []HearsActive
<1>1. HInv => HearsActive
  <2> SUFFICES ASSUME HInv, ui.pc = "idle", active # None, faults = 0, ~hurried,
                      \A i \in Started : ~Starting(i)
               PROVE  /\ registered # None /\ sub[registered].pc = "open"
                      /\ \A kind \in {"message", "joined", "left"} : Emits(registered, kind, active)
    BY DEF HearsActive
  <2>1. /\ Last \in Threads /\ sub[Last].channel = active
        /\ \/ sub[Last].pc = "spawned"
           \/ sub[Last].pc \in {"registered", "open"} /\ registered = Last
    BY DEF HInv, Quiet, Undisturbed, Heard
  <2>2. ~Starting(Last)
    BY <2>1 DEF Started, Starting
  <2>3. registered = Last /\ sub[Last].pc = "open"
    BY <2>1, <2>2 DEF Starting
  <2> QED BY <2>1, <2>3, SessionAssumption DEF Emits, Threads
<1> QED BY <1>1, HInvariant, PTL
=============================================================================
