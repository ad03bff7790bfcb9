------------------------------- MODULE Sessions -------------------------------
(***************************************************************************)
(* Signing in and staying signed in: registration, login, and refresh      *)
(* tokens that are rotated on every use.  AuthService does each of these   *)
(* in several statements without a transaction around them; requests of    *)
(* one device overlap when an answer is late and the device tries again.   *)
(*                                                                         *)
(* There is one user.  A session is what descends from one registration or *)
(* login, and has the name of its first token.  Access tokens are checked  *)
(* without the database and are left out.                                  *)
(***************************************************************************)
EXTENDS Integers, FiniteSets

CONSTANTS
  Devices,
  Calls,      \* requests the server may be running
  TokenIds,   \* refresh tokens there may be
  None        \* no token, no call

ASSUME SessionsAssumption == None \notin Calls /\ None \notin TokenIds

VARIABLES
  registered,  \* the user exists
  tokens,      \* state and session of each refresh token
  calls,       \* what each request is doing
  held,        \* the refresh token a device holds
  awaiting,    \* the request a device waits for
  forked,      \* history: sessions of a token that two refreshes found
  ended        \* history: sessions signed out while nothing else was going on

vars == <<registered, tokens, calls, held, awaiting, forked, ended>>

Ops == {"register", "login", "refresh", "logout"}

Idle == [pc |-> "idle", op |-> "login", device |-> None, token |-> None]

Token  == [state : {"unused", "live", "expired", "revoked"},
           session : TokenIds \cup {None}]
Call   == [pc : {"idle", "onboard", "credentials", "find", "revoke", "issue",
                 "answer"},
           op : Ops, device : Devices \cup {None},
           token : TokenIds \cup {None}]

TypeOK ==
  /\ registered \in BOOLEAN
  /\ tokens \in [TokenIds -> Token]
  /\ calls \in [Calls -> Call]
  /\ held \in [Devices -> TokenIds \cup {None}]
  /\ awaiting \in [Devices -> Calls \cup {None}]
  /\ forked \cup ended \subseteq TokenIds \cup {None}

Goto(c, call) == calls' = [calls EXCEPT ![c] = call]

\* Refreshes at pc of a token of session s.
Refreshing(pc, s) ==
  {c \in Calls : /\ calls[c].pc = pc /\ calls[c].op = "refresh"
                 /\ calls[c].token # None
                 /\ tokens[calls[c].token].session = s}

-----------------------------------------------------------------------------
(* The device.                                                             *)

\* Without a token it registers or logs in, with one it refreshes or logs out.
Request(d, c) ==
  /\ calls[c].pc = "idle" /\ awaiting[d] = None
  /\ \E op \in Ops :
       /\ op \in {"refresh", "logout"} <=> held[d] # None
       /\ Goto(c, [pc |-> CASE op = "register" -> "onboard"
                            [] op = "login" -> "credentials"
                            [] OTHER -> "find",
                   op |-> op, device |-> d, token |-> held[d]])
  /\ awaiting' = [awaiting EXCEPT ![d] = c]
  /\ UNCHANGED <<registered, tokens, held, forked, ended>>

\* The request goes on; a refresh that did is not undone.
Timeout(d) ==
  /\ awaiting[d] # None
  /\ awaiting' = [awaiting EXCEPT ![d] = None]
  /\ UNCHANGED <<registered, tokens, calls, held, forked, ended>>

-----------------------------------------------------------------------------
(* The server.                                                             *)

\* The call ends, with no token for the device.
Done(c) == [calls[c] EXCEPT !.pc = "answer", !.token = None]

\* Onboard, a transaction of its own: the tokens come later.
Register(c) ==
  /\ calls[c].pc = "onboard"
  /\ IF registered THEN Goto(c, Done(c))
                   ELSE Goto(c, [calls[c] EXCEPT !.pc = "issue"])
  /\ registered' = TRUE
  /\ UNCHANGED <<tokens, held, awaiting, forked, ended>>

Login(c) ==
  /\ calls[c].pc = "credentials"
  /\ IF registered THEN Goto(c, [calls[c] EXCEPT !.pc = "issue"])
                   ELSE Goto(c, Done(c))
  /\ UNCHANGED <<registered, tokens, held, awaiting, forked, ended>>

\* Mutant of Usable: without AND revoked_at IS NULL.
NotExpired(t) == tokens[t].state \in {"live", "revoked"}

Usable(t) == tokens[t].state = "live"

\* GetRefreshToken: a logout with an unusable token is done.
Find(c) ==
  LET t == calls[c].token
      s == tokens[t].session
  IN
  /\ calls[c].pc = "find"
  /\ IF Usable(t) THEN Goto(c, [calls[c] EXCEPT !.pc = "revoke"])
                  ELSE Goto(c, Done(c))
  /\ forked' = IF Usable(t) /\ calls[c].op = "refresh"
                  /\ Refreshing("revoke", s) # {}
               THEN forked \cup {s} ELSE forked
  /\ UNCHANGED <<registered, tokens, held, awaiting, ended>>

\* Mutant of RevokeRefreshToken: it waits until the new token is issued.
RevokeLater(c) ==
  /\ calls[c].pc = "revoke"
  /\ Goto(c, IF calls[c].op = "refresh" THEN [calls[c] EXCEPT !.pc = "issue"]
                                        ELSE Done(c))
  /\ UNCHANGED <<registered, tokens, held, awaiting, forked, ended>>

\* By id, whatever became of the token since it was found.
RevokeRefreshToken(c) ==
  LET t == calls[c].token
      s == tokens[t].session
  IN
  /\ calls[c].pc = "revoke"
  /\ tokens' = [tokens EXCEPT ![t].state = "revoked"]
  /\ Goto(c, IF calls[c].op = "refresh" THEN [calls[c] EXCEPT !.pc = "issue"]
                                        ELSE Done(c))
  /\ ended' = IF /\ calls[c].op = "logout" /\ Usable(t) /\ s \notin forked
                 /\ Refreshing("revoke", s) = {}
              THEN ended \cup {s} ELSE ended
  /\ UNCHANGED <<registered, held, awaiting, forked>>

\* issueTokens, in the session of the token that was exchanged.
Issue(c) ==
  /\ calls[c].pc = "issue"
  /\ \E t \in TokenIds :
       /\ tokens[t].state = "unused"
       /\ tokens' = [tokens EXCEPT ![t] =
            [state |-> "live",
             session |-> IF calls[c].op = "refresh"
                         THEN tokens[calls[c].token].session ELSE t]]
       /\ Goto(c, [calls[c] EXCEPT !.pc = "answer", !.token = t])
  /\ UNCHANGED <<registered, held, awaiting, forked, ended>>

\* A refused refresh, and a logout, leave the device without a token; a
\* refused registration or login as it was, which is the same.
Answer(c) ==
  LET d == calls[c].device IN
  /\ calls[c].pc = "answer" /\ Goto(c, Idle)
  /\ IF awaiting[d] = c
     THEN /\ awaiting' = [awaiting EXCEPT ![d] = None]
          /\ held' = [held EXCEPT ![d] = calls[c].token]
     ELSE UNCHANGED <<awaiting, held>>
  /\ UNCHANGED <<registered, tokens, forked, ended>>

\* The server stops, or a statement fails: what has been done stays.
Fail(c) ==
  /\ calls[c].pc # "idle" /\ Goto(c, Idle)
  /\ awaiting' = [d \in Devices |-> IF awaiting[d] = c THEN None
                                                       ELSE awaiting[d]]
  /\ UNCHANGED <<registered, tokens, held, forked, ended>>

\* expires_at passes.
Expire(t) ==
  /\ tokens[t].state = "live"
  /\ tokens' = [tokens EXCEPT ![t].state = "expired"]
  /\ UNCHANGED <<registered, calls, held, awaiting, forked, ended>>

-----------------------------------------------------------------------------
Init ==
  /\ registered = FALSE
  /\ tokens = [t \in TokenIds |-> [state |-> "unused", session |-> None]]
  /\ calls = [c \in Calls |-> Idle]
  /\ held = [d \in Devices |-> None] /\ awaiting = [d \in Devices |-> None]
  /\ forked = {} /\ ended = {}

Serve(c) ==
  \/ Register(c) \/ Login(c)
  \/ Find(c) \/ RevokeRefreshToken(c) \/ Issue(c)
  \/ Answer(c) \/ Fail(c)

Next ==
  \/ \E d \in Devices : Timeout(d) \/ \E c \in Calls : Request(d, c)
  \/ \E c \in Calls : Serve(c)
  \/ \E t \in TokenIds : Expire(t)

Spec == Init /\ [][Next]_vars

-----------------------------------------------------------------------------
(* Properties.                                                             *)

(***************************************************************************)
(* A session has one usable refresh token at most, whatever times out, is  *)
(* retried or fails half way: "rotates it (revoke old + issue new)"        *)
(* (auth.go:93).  The exception is a token that two refreshes found before *)
(* either revoked it: both are answered with a new one.                    *)
(***************************************************************************)
OneUsable ==
  \A t, u \in TokenIds :
    /\ tokens[t].state = "live" /\ tokens[u].state = "live"
    /\ tokens[t].session = tokens[u].session
    /\ tokens[t].session \notin forked
    => t = u

(***************************************************************************)
(* A session that was signed out, with the token that was usable and while *)
(* no refresh of it was under way, has no usable token ever again.         *)
(***************************************************************************)
SignedOut ==
  \A t \in TokenIds :
    tokens[t].state = "live" => tokens[t].session \notin ended
=============================================================================
