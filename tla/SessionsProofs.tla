---------------------------- MODULE SessionsProofs ----------------------------
(***************************************************************************)
(* Proofs about Sessions: one usable token per session, and sessions that  *)
(* stay signed out, for any number of devices, requests and tokens.        *)
(***************************************************************************)
EXTENDS Sessions, TLAPS

Tokens == TokenIds \cup {None}

\* A refresh at pc of a token of session s: a member of Refreshing(pc, s).
At(c, pc, s) ==
  /\ calls[c].pc = pc /\ calls[c].op = "refresh"
  /\ calls[c].token # None /\ tokens[calls[c].token].session = s

Used(t) == t \in TokenIds /\ tokens[t].state # "unused"

RootedCall(c) ==
  /\ calls[c].pc \in {"find", "revoke"} => Used(calls[c].token)
  /\ calls[c].pc = "issue" /\ calls[c].op = "refresh" => Used(calls[c].token)
  /\ calls[c].pc = "answer" /\ calls[c].token # None => Used(calls[c].token)
  /\ calls[c].pc \in {"onboard", "credentials"} => calls[c].op # "refresh"

(***************************************************************************)
(* Whatever names a token names one that was issued, so a new one is new   *)
(* to all of them; and a call without a token is no refresh.               *)
(***************************************************************************)
Rooted ==
  /\ \A t \in TokenIds : Used(t) => Used(tokens[t].session)
  /\ \A c \in Calls : RootedCall(c)
  /\ \A d \in Devices : held[d] # None => Used(held[d])
  /\ \A s \in ended : Used(s)

(***************************************************************************)
(* A session that is not forked has one usable token, or one refresh about *)
(* to issue one; a refresh about to revoke is alone and of that token.     *)
(***************************************************************************)
Single(s) ==
  /\ \A t, u \in TokenIds :
       Usable(t) /\ tokens[t].session = s /\ Usable(u) /\ tokens[u].session = s
         => t = u
  /\ \A c, e \in Calls :
       /\ At(c, "revoke", s) /\ At(e, "revoke", s) => c = e
       /\ At(c, "issue", s) /\ At(e, "issue", s) => c = e
       /\ ~(At(c, "issue", s) /\ At(e, "revoke", s))
  /\ \A c \in Calls, t \in TokenIds :
       Usable(t) /\ tokens[t].session = s =>
         /\ At(c, "revoke", s) => calls[c].token = t
         /\ ~At(c, "issue", s)

\* Nothing of session s is left that could give it a usable token.
Over(s) ==
  /\ \A t \in TokenIds : ~(Usable(t) /\ tokens[t].session = s)
  /\ \A c \in Calls : ~At(c, "revoke", s) /\ ~At(c, "issue", s)

IInv ==
  /\ TypeOK /\ Rooted
  /\ \A s \in TokenIds : s \notin forked => Single(s)
  /\ \A s \in ended : Over(s)

-----------------------------------------------------------------------------
(* What a step does to the calls.                                          *)

\* A call with another pc, and perhaps another token, is a call.
LEMMA CallType ==
  ASSUME NEW call \in Call, NEW t \in Tokens
  PROVE  /\ [call EXCEPT !.pc = "issue"] \in Call
         /\ [call EXCEPT !.pc = "revoke"] \in Call
         /\ [call EXCEPT !.pc = "answer", !.token = t] \in Call
  BY DEF Call, Tokens

\* Goto replaces one call.
LEMMA GotoCalls ==
  ASSUME calls \in [Calls -> Call], NEW c \in Calls, NEW call \in Call,
         Goto(c, call)
  PROVE  /\ calls' \in [Calls -> Call]
         /\ calls'[c] = call
         /\ \A e \in Calls : e # c => calls'[e] = calls[e]
  BY DEF Goto

\* Goto with another pc keeps what the call is about.
LEMMA GotoPc ==
  ASSUME calls \in [Calls -> Call], NEW c \in Calls,
         NEW pc \in {"issue", "revoke"}, Goto(c, [calls[c] EXCEPT !.pc = pc])
  PROVE  /\ calls' \in [Calls -> Call]
         /\ calls'[c].pc = pc /\ calls'[c].op = calls[c].op
         /\ calls'[c].token = calls[c].token
         /\ \A e \in Calls : e # c => calls'[e] = calls[e]
<1>1. calls[c] \in Call
  OBVIOUS
<1>2. [calls[c] EXCEPT !.pc = pc] \in Call
  BY <1>1 DEF Call
<1>3. /\ calls' \in [Calls -> Call]
      /\ calls'[c] = [calls[c] EXCEPT !.pc = pc]
      /\ \A e \in Calls : e # c => calls'[e] = calls[e]
  BY <1>2, GotoCalls
<1> QED BY <1>1, <1>3 DEF Call

\* Goto to the answer, with a token for the device or none.
LEMMA GotoAnswer ==
  ASSUME calls \in [Calls -> Call], NEW c \in Calls, NEW t \in Tokens,
         Goto(c, [calls[c] EXCEPT !.pc = "answer", !.token = t])
  PROVE  /\ calls' \in [Calls -> Call]
         /\ calls'[c].pc = "answer" /\ calls'[c].token = t
         /\ \A e \in Calls : e # c => calls'[e] = calls[e]
<1>1. calls[c] \in Call
  OBVIOUS
<1>2. [calls[c] EXCEPT !.pc = "answer", !.token = t] \in Call
  BY <1>1, CallType
<1>3. /\ calls' \in [Calls -> Call]
      /\ calls'[c] = [calls[c] EXCEPT !.pc = "answer", !.token = t]
      /\ \A e \in Calls : e # c => calls'[e] = calls[e]
  BY <1>2, GotoCalls
<1> QED BY <1>1, <1>3 DEF Call

\* A call that ends early names no token.
LEMMA GotoDone ==
  ASSUME calls \in [Calls -> Call], NEW c \in Calls, Goto(c, Done(c))
  PROVE  /\ calls' \in [Calls -> Call]
         /\ calls'[c].pc = "answer" /\ calls'[c].token = None
         /\ \A e \in Calls : e # c => calls'[e] = calls[e]
  BY GotoAnswer DEF Done, Tokens

\* A call that is over is free for another request.
LEMMA GotoIdle ==
  ASSUME calls \in [Calls -> Call], NEW c \in Calls, Goto(c, Idle)
  PROVE  /\ calls' \in [Calls -> Call]
         /\ calls'[c].pc = "idle"
         /\ \A e \in Calls : e # c => calls'[e] = calls[e]
<1>1. Idle \in Call
  BY DEF Idle, Call, Ops
<1> QED BY <1>1, GotoCalls DEF Idle

\* The three things a new request may be.
LEMMA RequestCalls ==
  ASSUME TypeOK, NEW d \in Devices, NEW c \in Calls, Request(d, c)
  PROVE  /\ calls' \in [Calls -> Call]
         /\ calls'[c].token = held[d]
         /\ \/ calls'[c].pc = "onboard" /\ calls'[c].op = "register"
            \/ calls'[c].pc = "credentials" /\ calls'[c].op = "login"
            \/ calls'[c].pc = "find" /\ held[d] # None
         /\ \A e \in Calls : e # c => calls'[e] = calls[e]
<1> DEFINE call(pc, op) ==
      [pc |-> pc, op |-> op, device |-> d, token |-> held[d]]
<1>1. PICK op \in Ops :
        /\ op \in {"refresh", "logout"} <=> held[d] # None
        /\ Goto(c, call(CASE op = "register" -> "onboard"
                          [] op = "login" -> "credentials"
                          [] OTHER -> "find", op))
  BY DEF Request
<1>2. PICK pc \in {"onboard", "credentials", "find"} :
        /\ Goto(c, call(pc, op))
        /\ \/ pc = "onboard" /\ op = "register"
           \/ pc = "credentials" /\ op = "login"
           \/ pc = "find" /\ op \in {"refresh", "logout"}
  <2>1. CASE op = "register"
    BY <1>1, <2>1
  <2>2. CASE op = "login"
    BY <1>1, <2>2
  <2>3. CASE op \in {"refresh", "logout"}
    BY <1>1, <2>3
  <2> QED BY <1>1, <2>1, <2>2, <2>3 DEF Ops
<1>3. call(pc, op) \in Call
  BY DEF Call, TypeOK, Ops
<1>4. /\ call(pc, op).pc = pc /\ call(pc, op).op = op
      /\ call(pc, op).token = held[d]
  OBVIOUS
<1> HIDE DEF call
<1>5. /\ calls' \in [Calls -> Call] /\ calls'[c] = call(pc, op)
      /\ \A e \in Calls : e # c => calls'[e] = calls[e]
  BY <1>2, <1>3, GotoCalls DEF TypeOK
<1> QED BY <1>1, <1>2, <1>4, <1>5

-----------------------------------------------------------------------------
(* What a step may do without disturbing the invariant.                    *)

Kept == /\ \A s \in TokenIds : s \notin forked => Single(s)
        /\ \A s \in ended : Over(s)

(***************************************************************************)
(* A step that makes no token usable and brings no refresh nearer to a new *)
(* one: nearly every step but a refresh's own.                             *)
(***************************************************************************)
LEMMA Quiet ==
  ASSUME IInv,
         \A t \in TokenIds : Usable(t)' =>
           Usable(t) /\ tokens'[t].session = tokens[t].session,
         \A c \in Calls, s \in TokenIds, pc \in {"revoke", "issue"} :
           At(c, pc, s)' => At(c, pc, s) /\ calls'[c].token = calls[c].token,
         forked \subseteq forked', ended' = ended
  PROVE  Kept'
<1>1. ASSUME NEW s \in TokenIds, s \notin forked'
      PROVE  Single(s)'
  <2>1. Single(s)
    BY <1>1 DEF IInv
  <2> QED BY <2>1 DEF Single
<1>2. ASSUME NEW s \in ended'
      PROVE  Over(s)'
  <2>1. Over(s) /\ s \in TokenIds
    BY <1>2 DEF IInv, Rooted, Used
  <2> QED BY <2>1 DEF Over
<1> QED BY <1>1, <1>2 DEF Kept

\* One call moves on, without becoming a refresh about to revoke or issue.
LEMMA CallStep ==
  ASSUME IInv, NEW c \in Calls, calls' \in [Calls -> Call],
         \A e \in Calls : e # c => calls'[e] = calls[e],
         RootedCall(c)',
         calls'[c].pc \in {"revoke", "issue"} => calls'[c].op # "refresh",
         \A d \in Devices : held'[d] # None => Used(held'[d]),
         UNCHANGED <<tokens, ended>>, forked \subseteq forked'
  PROVE  Rooted' /\ Kept'
<1>1. Rooted'
  <2>1. \A e \in Calls : RootedCall(e)'
    BY DEF IInv, Rooted, RootedCall, Used
  <2> QED BY <2>1 DEF IInv, Rooted, Used
<1>2. \A t \in TokenIds : Usable(t)' =>
        Usable(t) /\ tokens'[t].session = tokens[t].session
  BY DEF Usable
<1>3. \A e \in Calls, s \in TokenIds, pc \in {"revoke", "issue"} :
        At(e, pc, s)' => At(e, pc, s) /\ calls'[e].token = calls[e].token
  BY DEF At
<1> QED BY <1>1, <1>2, <1>3, Quiet

-----------------------------------------------------------------------------
(* Each step keeps the invariant.                                          *)

\* A new request has the token its device holds, if any.
LEMMA StepRequest ==
  ASSUME IInv, NEW d \in Devices, NEW c \in Calls, Request(d, c)
  PROVE  IInv'
<1>1. /\ calls' \in [Calls -> Call]
      /\ calls'[c].token = held[d]
      /\ \/ calls'[c].pc = "onboard" /\ calls'[c].op = "register"
         \/ calls'[c].pc = "credentials" /\ calls'[c].op = "login"
         \/ calls'[c].pc = "find" /\ held[d] # None
      /\ \A e \in Calls : e # c => calls'[e] = calls[e]
  BY RequestCalls DEF IInv
<1>2. /\ UNCHANGED <<registered, tokens, held, forked, ended>>
      /\ awaiting' = [awaiting EXCEPT ![d] = c]
  BY DEF Request
<1>3. TypeOK'
  BY <1>1, <1>2 DEF IInv, TypeOK
<1>4. RootedCall(c)'
  BY <1>1, <1>2 DEF IInv, Rooted, RootedCall, Used
<1>5. \A e \in Devices : held'[e] # None => Used(held'[e])
  BY <1>2 DEF IInv, Rooted
<1>6. Rooted' /\ Kept'
  BY <1>1, <1>2, <1>4, <1>5, CallStep
<1> QED BY <1>3, <1>6 DEF IInv, Kept

\* A device that stops waiting changes nothing on the server.
LEMMA StepTimeout ==
  ASSUME IInv, NEW d \in Devices, Timeout(d)
  PROVE  IInv'
<1>1. /\ UNCHANGED <<registered, tokens, calls, held, forked, ended>>
      /\ awaiting' = [awaiting EXCEPT ![d] = None]
  BY DEF Timeout
<1>2. TypeOK'
  BY <1>1 DEF IInv, TypeOK
<1>3. Rooted'
  BY <1>1 DEF IInv, Rooted, RootedCall, Used
<1>4. Kept'
  <2>1. \A t \in TokenIds : Usable(t)' =>
          Usable(t) /\ tokens'[t].session = tokens[t].session
    BY <1>1 DEF Usable
  <2>2. \A c \in Calls, s \in TokenIds, pc \in {"revoke", "issue"} :
          At(c, pc, s)' => At(c, pc, s) /\ calls'[c].token = calls[c].token
    BY <1>1 DEF At
  <2> QED BY <1>1, <2>1, <2>2, Quiet
<1> QED BY <1>2, <1>3, <1>4 DEF IInv, Kept

\* A call refused, or one that has nothing more to say, names no token.
LEMMA StepDone ==
  ASSUME IInv, NEW c \in Calls, Goto(c, Done(c)), registered' \in BOOLEAN,
         UNCHANGED <<tokens, held, awaiting, forked, ended>>
  PROVE  IInv'
<1>1. /\ calls' \in [Calls -> Call]
      /\ calls'[c].pc = "answer" /\ calls'[c].token = None
      /\ \A e \in Calls : e # c => calls'[e] = calls[e]
  BY GotoDone DEF IInv, TypeOK
<1>2. TypeOK'
  BY <1>1 DEF IInv, TypeOK
<1>3. RootedCall(c)'
  BY <1>1 DEF RootedCall
<1>4. \A e \in Devices : held'[e] # None => Used(held'[e])
  BY DEF IInv, Rooted
<1>5. Rooted' /\ Kept'
  BY <1>1, <1>3, <1>4, CallStep
<1> QED BY <1>2, <1>5 DEF IInv, Kept

\* A registration or login about to issue is no refresh.
LEMMA StepSignIn ==
  ASSUME IInv, NEW c \in Calls, calls[c].pc \in {"onboard", "credentials"},
         Goto(c, [calls[c] EXCEPT !.pc = "issue"]), registered' \in BOOLEAN,
         UNCHANGED <<tokens, held, awaiting, forked, ended>>
  PROVE  IInv'
<1>1. /\ calls' \in [Calls -> Call]
      /\ calls'[c].pc = "issue" /\ calls'[c].op = calls[c].op
      /\ \A e \in Calls : e # c => calls'[e] = calls[e]
  BY GotoPc DEF IInv, TypeOK
<1>2. calls[c].op # "refresh"
  BY DEF IInv, Rooted, RootedCall
<1>3. TypeOK'
  BY <1>1 DEF IInv, TypeOK
<1>4. RootedCall(c)'
  BY <1>1, <1>2 DEF RootedCall
<1>5. \A e \in Devices : held'[e] # None => Used(held'[e])
  BY DEF IInv, Rooted
<1>6. Rooted' /\ Kept'
  BY <1>1, <1>2, <1>4, <1>5, CallStep
<1> QED BY <1>3, <1>6 DEF IInv, Kept

\* Onboard either refuses the email or goes on to issue the tokens.
LEMMA StepRegister ==
  ASSUME IInv, NEW c \in Calls, Register(c)
  PROVE  IInv'
<1>1. CASE registered
  BY <1>1, StepDone DEF Register
<1>2. CASE ~registered
  BY <1>2, StepSignIn DEF Register
<1> QED BY <1>1, <1>2

\* A login of no user is refused.
LEMMA StepLogin ==
  ASSUME IInv, NEW c \in Calls, Login(c)
  PROVE  IInv'
<1>1. registered \in BOOLEAN
  BY DEF IInv, TypeOK
<1>2. CASE registered
  BY <1>1, <1>2, StepSignIn DEF Login
<1>3. CASE ~registered
  BY <1>1, <1>3, StepDone DEF Login
<1> QED BY <1>2, <1>3

\* A device keeps the token of its answer, which was issued.
LEMMA StepAnswer ==
  ASSUME IInv, NEW c \in Calls, Answer(c)
  PROVE  IInv'
<1>1. /\ calls' \in [Calls -> Call]
      /\ calls'[c].pc = "idle"
      /\ \A e \in Calls : e # c => calls'[e] = calls[e]
  BY GotoIdle DEF IInv, TypeOK, Answer
<1>2. /\ calls[c].pc = "answer"
      /\ UNCHANGED <<registered, tokens, forked, ended>>
  BY DEF Answer
<1>3. /\ awaiting' \in [Devices -> Calls \cup {None}]
      /\ held' \in [Devices -> TokenIds \cup {None}]
      /\ \A d \in Devices : held'[d] \in {held[d], calls[c].token}
  <2>1. calls[c].token \in TokenIds \cup {None}
    BY DEF IInv, TypeOK, Call
  <2>2. CASE awaiting[calls[c].device] = c
    BY <2>1, <2>2 DEF IInv, TypeOK, Answer
  <2>3. CASE awaiting[calls[c].device] # c
    BY <2>3 DEF IInv, TypeOK, Answer
  <2> QED BY <2>2, <2>3
<1>4. TypeOK'
  BY <1>1, <1>2, <1>3 DEF IInv, TypeOK
<1>5. RootedCall(c)'
  BY <1>1 DEF RootedCall
<1>6. \A d \in Devices : held'[d] # None => Used(held'[d])
  BY <1>2, <1>3 DEF IInv, Rooted, RootedCall
<1>7. Rooted' /\ Kept'
  BY <1>1, <1>2, <1>5, <1>6, CallStep
<1> QED BY <1>4, <1>7 DEF IInv, Kept

\* A request that dies changes no token.
LEMMA StepFail ==
  ASSUME IInv, NEW c \in Calls, Fail(c)
  PROVE  IInv'
<1>1. /\ calls' \in [Calls -> Call]
      /\ calls'[c].pc = "idle"
      /\ \A e \in Calls : e # c => calls'[e] = calls[e]
  BY GotoIdle DEF IInv, TypeOK, Fail
<1>2. /\ UNCHANGED <<registered, tokens, held, forked, ended>>
      /\ awaiting' \in [Devices -> Calls \cup {None}]
  BY DEF IInv, TypeOK, Fail
<1>3. TypeOK'
  BY <1>1, <1>2 DEF IInv, TypeOK
<1>4. RootedCall(c)'
  BY <1>1 DEF RootedCall
<1>5. \A d \in Devices : held'[d] # None => Used(held'[d])
  BY <1>2 DEF IInv, Rooted
<1>6. Rooted' /\ Kept'
  BY <1>1, <1>2, <1>4, <1>5, CallStep
<1> QED BY <1>3, <1>6 DEF IInv, Kept

\* A token in another state keeps its session.
LEMMA TokenState ==
  ASSUME tokens \in [TokenIds -> Token], NEW t \in TokenIds,
         NEW state \in {"expired", "revoked"},
         tokens' = [tokens EXCEPT ![t].state = state]
  PROVE  /\ tokens' \in [TokenIds -> Token]
         /\ tokens'[t].state = state
         /\ \A u \in TokenIds : tokens'[u].session = tokens[u].session
         /\ \A u \in TokenIds : u # t => tokens'[u] = tokens[u]
<1>1. tokens[t] \in Token
  OBVIOUS
<1>2. [tokens[t] EXCEPT !.state = state] \in Token
  BY <1>1 DEF Token
<1>3. /\ tokens' \in [TokenIds -> Token]
      /\ tokens'[t] = [tokens[t] EXCEPT !.state = state]
      /\ \A u \in TokenIds : u # t => tokens'[u] = tokens[u]
  BY <1>2
<1>4. tokens'[t].state = state /\ tokens'[t].session = tokens[t].session
  BY <1>1, <1>3 DEF Token
<1> QED BY <1>3, <1>4

\* Time takes a usable token away.
LEMMA StepExpire ==
  ASSUME IInv, NEW t \in TokenIds, Expire(t)
  PROVE  IInv'
<1>1. /\ tokens' \in [TokenIds -> Token]
      /\ tokens'[t].state = "expired"
      /\ \A u \in TokenIds : tokens'[u].session = tokens[u].session
      /\ \A u \in TokenIds : u # t => tokens'[u] = tokens[u]
  BY TokenState DEF IInv, TypeOK, Expire
<1>2. UNCHANGED <<registered, calls, held, awaiting, forked, ended>>
  BY DEF Expire
<1>3. TypeOK'
  BY <1>1, <1>2 DEF IInv, TypeOK
<1>4. \A u : Used(u) => Used(u)'
  BY <1>1 DEF Used
<1>5. \A u \in TokenIds : Used(u)' => Used(u)
  BY <1>1 DEF Expire, Used
<1>6. Rooted'
  <2>1. \A u \in TokenIds : (Used(u) => Used(tokens[u].session))'
    BY <1>1, <1>5 DEF IInv, Rooted, Used
  <2>2. \A c \in Calls : RootedCall(c)'
    BY <1>2, <1>4 DEF IInv, Rooted, RootedCall
  <2> QED BY <1>2, <1>4, <2>1, <2>2 DEF IInv, Rooted
<1>7. Kept'
  <2>1. \A u \in TokenIds : Usable(u)' =>
          Usable(u) /\ tokens'[u].session = tokens[u].session
    BY <1>1 DEF Usable
  <2>2. \A c \in Calls, s \in TokenIds, pc \in {"revoke", "issue"} :
          At(c, pc, s)' => At(c, pc, s) /\ calls'[c].token = calls[c].token
    BY <1>1, <1>2 DEF At, IInv, Rooted, RootedCall, Used
  <2> QED BY <1>2, <2>1, <2>2, Quiet
<1> QED BY <1>3, <1>6, <1>7 DEF IInv, Kept

(***************************************************************************)
(* A refresh that finds a usable token is the only one about to revoke,    *)
(* or the session is forked from here on.                                  *)
(***************************************************************************)
LEMMA StepFind ==
  ASSUME IInv, NEW c \in Calls, Find(c)
  PROVE  IInv'
<1>1. /\ calls[c].pc = "find" /\ Used(calls[c].token)
      /\ UNCHANGED <<registered, tokens, held, awaiting, ended>>
  BY DEF Find, IInv, Rooted, RootedCall
<1>2. PICK k \in TokenIds : k = calls[c].token /\ Used(k)
  BY <1>1 DEF Used
<1>3. PICK z \in TokenIds : z = tokens[k].session /\ Used(z)
  BY <1>2 DEF IInv, Rooted, Used
<1>4. CASE ~Usable(k)
  BY <1>1, <1>2, <1>4, StepDone DEF Find, IInv, TypeOK
<1>5. CASE Usable(k)
  <2>1. /\ calls' \in [Calls -> Call]
        /\ calls'[c].pc = "revoke" /\ calls'[c].op = calls[c].op
        /\ calls'[c].token = k
        /\ \A e \in Calls : e # c => calls'[e] = calls[e]
    BY <1>2, <1>5, GotoPc DEF IInv, TypeOK, Find
  <2>2. forked' = IF calls[c].op = "refresh" /\ Refreshing("revoke", z) # {}
                  THEN forked \cup {z} ELSE forked
    BY <1>2, <1>3, <1>5 DEF Find
  <2>3. TypeOK'
    <3>1. (forked \cup ended)' \subseteq TokenIds \cup {None}
      BY <1>1, <2>2 DEF IInv, TypeOK
    <3> QED BY <1>1, <2>1, <3>1 DEF IInv, TypeOK
  <2>4. RootedCall(c)'
    BY <1>1, <1>2, <2>1 DEF RootedCall, Used
  <2>5. \A e \in Devices : held'[e] # None => Used(held'[e])
    BY <1>1 DEF IInv, Rooted
  <2>6. CASE calls[c].op # "refresh"
    <3>1. Rooted' /\ Kept'
      BY <1>1, <2>1, <2>2, <2>4, <2>5, <2>6, CallStep
    <3> QED BY <2>3, <3>1 DEF IInv, Kept
  <2>7. CASE calls[c].op = "refresh"
    <3>1. Rooted'
      <4>1. \A e \in Calls : RootedCall(e)'
        BY <1>1, <2>1, <2>4 DEF IInv, Rooted, RootedCall, Used
      <4> QED BY <1>1, <4>1 DEF IInv, Rooted, Used
    <3>2. \A e \in Calls : \A s, pc : e # c => (At(e, pc, s)' <=> At(e, pc, s))
      BY <1>1, <2>1 DEF At
    <3>3. \A s, pc : At(c, pc, s)' => s = z /\ pc = "revoke"
      BY <1>1, <1>3, <2>1 DEF At
    <3>4. \A t \in TokenIds : Usable(t)' <=> Usable(t)
      BY <1>1 DEF Usable
    <3>5. ASSUME NEW s \in TokenIds, s \notin forked'
          PROVE  Single(s)'
      <4>1. Single(s)
        BY <1>1, <2>2, <3>5 DEF IInv
      <4>2. CASE s # z
        BY <1>1, <2>1, <3>2, <3>3, <3>4, <4>1, <4>2 DEF Single
      <4>3. CASE s = z
        <5>1. \A e \in Calls : ~At(e, "revoke", z)
          BY <2>2, <2>7, <3>5, <4>3 DEF Refreshing, At
        <5>2. \A e \in Calls : ~At(e, "issue", z)
          BY <1>3, <1>5, <4>1, <4>3 DEF Single
        <5>3. \A t \in TokenIds : Usable(t) /\ tokens[t].session = z => t = k
          BY <1>3, <1>5, <4>1, <4>3 DEF Single
        <5>4. \A e \in Calls : /\ At(e, "revoke", z)' => e = c
                               /\ ~At(e, "issue", z)'
          BY <3>2, <3>3, <5>1, <5>2
        <5> QED BY <1>1, <1>2, <1>3, <2>1, <3>4, <4>3, <5>3, <5>4 DEF Single
      <4> QED BY <4>2, <4>3
    <3>6. ASSUME NEW s \in ended'
          PROVE  Over(s)'
      <4>1. Over(s) /\ s \in TokenIds
        BY <1>1, <3>6 DEF IInv, Rooted, Used
      <4>2. s # z
        BY <1>3, <1>5, <4>1 DEF Over
      <4> QED BY <1>1, <3>2, <3>3, <3>4, <4>1, <4>2 DEF Over
    <3> QED BY <2>3, <3>1, <3>5, <3>6 DEF IInv
  <2> QED BY <2>6, <2>7
<1> QED BY <1>4, <1>5

(***************************************************************************)
(* Revoking: a refresh takes the one usable token and may now issue its    *)
(* successor, a logout leaves nothing.                                     *)
(***************************************************************************)
LEMMA StepRevoke ==
  ASSUME IInv, NEW c \in Calls, RevokeRefreshToken(c)
  PROVE  IInv'
<1>1. /\ calls[c].pc = "revoke" /\ Used(calls[c].token)
      /\ UNCHANGED <<registered, held, awaiting, forked>>
  BY DEF RevokeRefreshToken, IInv, Rooted, RootedCall
<1>2. PICK k \in TokenIds : k = calls[c].token /\ Used(k)
  BY <1>1 DEF Used
<1>3. PICK z \in TokenIds : z = tokens[k].session /\ Used(z)
  BY <1>2 DEF IInv, Rooted, Used
<1>4. /\ tokens' \in [TokenIds -> Token]
      /\ tokens'[k].state = "revoked"
      /\ \A t \in TokenIds : tokens'[t].session = tokens[t].session
      /\ \A t \in TokenIds : t # k => tokens'[t] = tokens[t]
  BY <1>2, TokenState DEF IInv, TypeOK, RevokeRefreshToken
<1>5. \A t : Used(t)' <=> Used(t)
  BY <1>2, <1>4 DEF Used
<1>6. \A t \in TokenIds : Usable(t)' <=> Usable(t) /\ t # k
  BY <1>4 DEF Usable
<1>7. \A t \in TokenIds : (Used(t) => Used(tokens[t].session))'
  BY <1>4, <1>5 DEF IInv, Rooted, Used
<1>8. CASE calls[c].op = "refresh"
  <2>1. /\ calls' \in [Calls -> Call]
        /\ calls'[c].pc = "issue" /\ calls'[c].op = "refresh"
        /\ calls'[c].token = k
        /\ \A e \in Calls : e # c => calls'[e] = calls[e]
    BY <1>2, <1>8, GotoPc DEF IInv, TypeOK, RevokeRefreshToken
  <2>2. ended' = ended
    BY <1>8 DEF RevokeRefreshToken
  <2>3. TypeOK'
    BY <1>1, <1>4, <2>1, <2>2 DEF IInv, TypeOK
  <2>4. Rooted'
    <3>1. \A e \in Calls : RootedCall(e)'
      BY <1>1, <1>2, <1>5, <2>1 DEF IInv, Rooted, RootedCall
    <3> QED BY <1>1, <1>5, <1>7, <2>2, <3>1 DEF IInv, Rooted
  <2>5. \A e \in Calls : \A s, pc : e # c /\ At(e, pc, s)' => At(e, pc, s)
    BY <1>4, <2>1, SessionsAssumption DEF At, IInv, TypeOK, Call
  <2>6. \A s, pc : At(c, pc, s)' => s = z /\ pc = "issue"
    BY <1>2, <1>3, <1>4, <2>1 DEF At
  <2>7. At(c, "revoke", z)
    BY <1>1, <1>2, <1>3, <1>8, SessionsAssumption DEF At
  <2>8. ASSUME NEW s \in TokenIds, s \notin forked'
        PROVE  Single(s)'
    <3>1. Single(s)
      BY <1>1, <2>8 DEF IInv
    <3>2. CASE s # z
      BY <1>4, <1>6, <2>1, <2>5, <2>6, <3>1, <3>2 DEF Single
    <3>3. CASE s = z
      <4>1. \A e \in Calls : ~At(e, "issue", z) /\ (At(e, "revoke", z) => e = c)
        BY <2>7, <3>1, <3>3 DEF Single
      <4>2. \A t \in TokenIds : ~(Usable(t)' /\ tokens'[t].session = z)
        BY <1>2, <1>4, <1>6, <2>7, <3>1, <3>3 DEF Single
      <4>3. \A e \in Calls : /\ ~At(e, "revoke", z)'
                             /\ At(e, "issue", z)' => e = c
        BY <2>5, <2>6, <4>1
      <4> QED BY <3>3, <4>2, <4>3 DEF Single
    <3> QED BY <3>2, <3>3
  <2>9. ASSUME NEW s \in ended'
        PROVE  Over(s)'
    <3>1. Over(s) /\ s \in TokenIds
      BY <2>2, <2>9 DEF IInv, Rooted, Used
    <3>2. s # z
      BY <2>7, <3>1 DEF Over
    <3> QED BY <1>4, <1>6, <2>5, <2>6, <3>1, <3>2 DEF Over
  <2> QED BY <2>3, <2>4, <2>8, <2>9 DEF IInv
<1>9. CASE calls[c].op # "refresh"
  <2>1. /\ calls' \in [Calls -> Call]
        /\ calls'[c].pc = "answer" /\ calls'[c].token = None
        /\ \A e \in Calls : e # c => calls'[e] = calls[e]
    BY <1>9, GotoDone DEF IInv, TypeOK, RevokeRefreshToken
  <2>2. \/ ended' = ended
        \/ /\ ended' = ended \cup {z} /\ Usable(k) /\ z \notin forked
           /\ Refreshing("revoke", z) = {}
    BY <1>2, <1>3 DEF RevokeRefreshToken
  <2>3. TypeOK'
    <3>1. (forked \cup ended)' \subseteq TokenIds \cup {None}
      BY <1>1, <2>2 DEF IInv, TypeOK
    <3> QED BY <1>1, <1>4, <2>1, <3>1 DEF IInv, TypeOK
  <2>4. Rooted'
    <3>1. \A e \in Calls : RootedCall(e)'
      BY <1>1, <1>5, <2>1 DEF IInv, Rooted, RootedCall
    <3> QED BY <1>1, <1>3, <1>5, <1>7, <2>2, <3>1 DEF IInv, Rooted
  <2>5. \A e \in Calls : \A s, pc :
          pc # "answer" /\ At(e, pc, s)' => e # c /\ At(e, pc, s)
    BY <1>4, <2>1, SessionsAssumption DEF At, IInv, TypeOK, Call
  <2>6. ASSUME NEW s \in TokenIds, s \notin forked'
        PROVE  Single(s)'
    <3>1. Single(s)
      BY <1>1, <2>6 DEF IInv
    <3> QED BY <1>4, <1>6, <2>1, <2>5, <3>1 DEF Single
  <2>7. ASSUME NEW s \in ended'
        PROVE  Over(s)'
    <3>1. s \in TokenIds
      BY <1>3, <2>2, <2>7 DEF IInv, Rooted, Used
    <3>2. CASE s \in ended
      <4>1. Over(s)
        BY <3>2 DEF IInv
      <4> QED BY <1>4, <1>6, <2>5, <4>1 DEF Over
    <3>3. CASE s \notin ended
      <4>1. /\ s = z /\ Usable(k) /\ z \notin forked
            /\ Refreshing("revoke", z) = {}
        BY <2>2, <2>7, <3>3
      <4>2. Single(z)
        BY <4>1 DEF IInv
      <4>3. \A e \in Calls : ~At(e, "revoke", z) /\ ~At(e, "issue", z)
        BY <1>3, <4>1, <4>2 DEF Refreshing, At, Single
      <4>4. \A t \in TokenIds : ~(Usable(t)' /\ tokens'[t].session = z)
        BY <1>3, <1>4, <1>6, <4>1, <4>2 DEF Single
      <4> QED BY <2>5, <4>1, <4>3, <4>4 DEF Over
    <3> QED BY <3>2, <3>3
  <2> QED BY <2>3, <2>4, <2>6, <2>7 DEF IInv
<1> QED BY <1>8, <1>9

(***************************************************************************)
(* Issuing: no call and no session knows the new token.  A refresh gives   *)
(* its session the one usable token; a registration or login starts a      *)
(* session nothing is of.                                                  *)
(***************************************************************************)
LEMMA StepIssue ==
  ASSUME IInv, NEW c \in Calls, Issue(c)
  PROVE  IInv'
<1>1. PICK t \in TokenIds :
        /\ tokens[t].state = "unused"
        /\ tokens' = [tokens EXCEPT ![t] =
             [state |-> "live",
              session |-> IF calls[c].op = "refresh"
                          THEN tokens[calls[c].token].session ELSE t]]
        /\ Goto(c, [calls[c] EXCEPT !.pc = "answer", !.token = t])
  BY DEF Issue
<1>2. /\ calls[c].pc = "issue"
      /\ UNCHANGED <<registered, held, awaiting, forked, ended>>
  BY DEF Issue
<1>3. PICK z \in TokenIds :
        /\ z = IF calls[c].op = "refresh"
               THEN tokens[calls[c].token].session ELSE t
        /\ Used(z) \/ z = t
        /\ calls[c].op = "refresh" => Used(z) /\ At(c, "issue", z)
        /\ calls[c].op # "refresh" => z = t
  <2>1. CASE calls[c].op = "refresh"
    <3>1. Used(calls[c].token)
      BY <1>2, <2>1 DEF IInv, Rooted, RootedCall
    <3>2. Used(tokens[calls[c].token].session)
      BY <3>1 DEF IInv, Rooted, Used
    <3>3. At(c, "issue", tokens[calls[c].token].session)
      BY <1>2, <2>1, <3>1, SessionsAssumption DEF At, Used
    <3> QED BY <2>1, <3>2, <3>3 DEF Used
  <2>2. CASE calls[c].op # "refresh"
    BY <2>2
  <2> QED BY <2>1, <2>2
<1>4. /\ calls' \in [Calls -> Call]
      /\ calls'[c].pc = "answer" /\ calls'[c].token = t
      /\ \A e \in Calls : e # c => calls'[e] = calls[e]
  BY <1>1, GotoAnswer DEF IInv, TypeOK, Tokens
<1>5. /\ tokens' \in [TokenIds -> Token]
      /\ tokens'[t].state = "live" /\ tokens'[t].session = z
      /\ \A u \in TokenIds : u # t => tokens'[u] = tokens[u]
  <2>1. [state |-> "live", session |-> z] \in Token
    BY DEF Token
  <2>2. tokens' = [tokens EXCEPT ![t] = [state |-> "live", session |-> z]]
    BY <1>1, <1>3
  <2> QED BY <2>1, <2>2 DEF IInv, TypeOK
<1>6. TypeOK'
  BY <1>2, <1>4, <1>5 DEF IInv, TypeOK
<1>7. ~Used(t) /\ \A u : Used(u)' <=> Used(u) \/ u = t
  BY <1>1, <1>5 DEF Used
<1>8. Rooted'
  <2>1. \A u \in TokenIds : (Used(u) => Used(tokens[u].session))'
    BY <1>3, <1>5, <1>7 DEF IInv, Rooted, Used
  <2>2. \A e \in Calls : RootedCall(e)'
    BY <1>2, <1>4, <1>7 DEF IInv, Rooted, RootedCall
  <2> QED BY <1>2, <1>7, <2>1, <2>2 DEF IInv, Rooted
<1>9. \A e \in Calls, s \in TokenIds, pc \in {"revoke", "issue"} :
        At(e, pc, s)' => e # c /\ At(e, pc, s)
  BY <1>4, <1>5, <1>7 DEF At, IInv, Rooted, RootedCall, Used
<1>10. \A u \in TokenIds : u # t =>
         /\ Usable(u)' <=> Usable(u)
         /\ tokens'[u].session = tokens[u].session
  BY <1>5 DEF Usable
<1>11. \A u \in TokenIds : Usable(u) => tokens[u].session # t
  BY <1>7 DEF IInv, Rooted, Used, Usable
<1>12. \A e \in Calls, pc \in {"revoke", "issue"} : ~At(e, pc, t)
  BY <1>7 DEF At, IInv, Rooted, RootedCall, Used
<1>13. ASSUME NEW s \in TokenIds, s \notin forked'
       PROVE  Single(s)'
  <2>1. Single(s)
    BY <1>2, <1>13 DEF IInv
  <2>2. CASE s # z
    <3>1. \A u \in TokenIds : Usable(u)' /\ tokens'[u].session = s =>
            u # t /\ Usable(u) /\ tokens[u].session = s
      BY <1>5, <1>10, <2>2
    <3> QED BY <1>4, <1>9, <2>1, <3>1 DEF Single
  <2>3. CASE s = z
    <3>1. \A u \in TokenIds : ~(Usable(u) /\ tokens[u].session = z)
      BY <1>3, <1>11, <2>1, <2>3 DEF Single
    <3>2. \A e \in Calls : e # c => ~At(e, "revoke", z) /\ ~At(e, "issue", z)
      BY <1>3, <1>12, <2>1, <2>3 DEF Single
    <3>3. \A e \in Calls : ~At(e, "revoke", z)' /\ ~At(e, "issue", z)'
      BY <1>9, <3>2
    <3>4. \A u \in TokenIds : Usable(u)' /\ tokens'[u].session = z => u = t
      BY <1>10, <3>1
    <3> QED BY <2>3, <3>3, <3>4 DEF Single
  <2> QED BY <2>2, <2>3
<1>14. ASSUME NEW s \in ended'
       PROVE  Over(s)'
  <2>1. Over(s) /\ Used(s) /\ s \in TokenIds
    BY <1>2, <1>14 DEF IInv, Rooted, Used
  <2>2. s # z
    BY <1>3, <1>7, <2>1 DEF Over
  <2> QED BY <1>5, <1>9, <1>10, <2>1, <2>2 DEF Over
<1> QED BY <1>6, <1>8, <1>13, <1>14 DEF IInv

-----------------------------------------------------------------------------
(* The theorems.                                                           *)

\* Before anything happened there is no token, no call and no session.
LEMMA InitInvariant == Init => IInv
<1> SUFFICES ASSUME Init PROVE IInv
  OBVIOUS
<1>1. /\ \A t \in TokenIds : tokens[t].state = "unused"
      /\ \A c \in Calls : calls[c] = Idle
      /\ held = [d \in Devices |-> None] /\ forked = {} /\ ended = {}
  BY DEF Init
<1>2. /\ Idle \in Call /\ Idle.pc = "idle" /\ Idle.op # "refresh"
      /\ [state |-> "unused", session |-> None] \in Token
  BY DEF Idle, Call, Token, Ops
<1>3. TypeOK
  BY <1>2 DEF Init, TypeOK
<1>4. Rooted
  BY <1>1, <1>2 DEF Rooted, RootedCall, Used
<1>5. \A s \in TokenIds : Single(s)
  BY <1>1, <1>2 DEF Single, At, Usable
<1> QED BY <1>1, <1>3, <1>4, <1>5 DEF IInv

\* Every step, and a stutter, keeps the invariant.
LEMMA StepInvariant == IInv /\ [Next]_vars => IInv'
<1> SUFFICES ASSUME IInv, [Next]_vars PROVE IInv'
  OBVIOUS
<1>1. CASE \E d \in Devices : Timeout(d) \/ \E c \in Calls : Request(d, c)
  BY <1>1, StepTimeout, StepRequest
<1>2. ASSUME NEW c \in Calls, Serve(c)
      PROVE  IInv'
  BY <1>2, StepRegister, StepLogin, StepFind, StepRevoke, StepIssue,
     StepAnswer, StepFail DEF Serve
<1>3. CASE \E t \in TokenIds : Expire(t)
  BY <1>3, StepExpire
<1>4. CASE UNCHANGED vars
  BY <1>4 DEF vars, IInv, TypeOK, Rooted, RootedCall, Used, Single, Over, At,
     Usable
<1> QED BY <1>1, <1>2, <1>3, <1>4 DEF Next

\* The invariant holds in every state.
LEMMA Invariant == Spec => []IInv
  BY InitInvariant, StepInvariant, PTL DEF Spec

(***************************************************************************)
(* Types: every request, token and device is in a state the service knows. *)
(***************************************************************************)
THEOREM SessionsTypeCorrect == Spec => []TypeOK
<1>1. IInv => TypeOK
  BY DEF IInv
<1> QED BY <1>1, Invariant, PTL

(***************************************************************************)
(* One usable token per session, for any number of requests in flight and  *)
(* any timeouts and failures (auth.go, Refresh).                           *)
(***************************************************************************)
THEOREM OneUsableCorrect == Spec => []OneUsable
<1>1. IInv => OneUsable
  <2> SUFFICES ASSUME IInv, NEW t \in TokenIds, NEW u \in TokenIds,
                      tokens[t].state = "live", tokens[u].state = "live",
                      tokens[t].session = tokens[u].session,
                      tokens[t].session \notin forked
               PROVE  t = u
    BY DEF OneUsable
  <2>1. tokens[t].session \in TokenIds
    BY DEF IInv, Rooted, Used
  <2>2. Single(tokens[t].session)
    BY <2>1 DEF IInv
  <2> QED BY <2>2 DEF Single, Usable
<1> QED BY <1>1, Invariant, PTL

(***************************************************************************)
(* A session signed out while nothing else was under way in it never has a *)
(* usable token again (auth.go, Logout).                                   *)
(***************************************************************************)
THEOREM SignedOutCorrect == Spec => []SignedOut
<1>1. IInv => SignedOut
  BY DEF IInv, Over, SignedOut, Usable
<1> QED BY <1>1, Invariant, PTL
=============================================================================
