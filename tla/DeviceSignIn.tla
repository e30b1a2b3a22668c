---------------------------- MODULE DeviceSignIn ----------------------------
(***************************************************************************)
(* `actual login --device`: the client asks the auth server for a code,    *)
(* shows it, and polls until the user has approved or declined the code    *)
(* elsewhere, or its lifetime has run out (auth/oauth.rs, login.rs).       *)
(*                                                                         *)
(* Time matters here: the client counts the seconds it has slept, the      *)
(* server the seconds that have passed, requests and late wake-ups         *)
(* included.  The server acts on a request at any moment between its       *)
(* sending and its time-out.  The clock advances one unit at a time, and   *)
(* never past the time-out of a request under way.                         *)
(***************************************************************************)
EXTENDS Integers

CONSTANTS
  Lifetimes,        \* what expires_in may be
  Intervals,        \* what interval may be
  NoInterval,       \* a response without one
  DefaultInterval,  \* DEFAULT_DEVICE_INTERVAL_SECS
  SlowDownBy,       \* DEVICE_SLOW_DOWN_INCREMENT_SECS
  Latency,          \* the HTTP client's time-out
  Lateness,         \* how late the runtime may wake a sleeper
  MaxClock,         \* bound: beyond the end of every correct sign-in
  Never             \* when nothing was approved

ASSUME DeviceAssumption ==
  /\ Lifetimes \subseteq Int /\ Intervals \subseteq Int
  /\ NoInterval \notin Int /\ Never \notin Int
  /\ DefaultInterval \in Nat \ {0} /\ SlowDownBy \in Nat
  /\ Latency \in Nat /\ Lateness \in Nat /\ MaxClock \in Nat

VARIABLES
  clock,
  client,   \* the command
  code,     \* the server: the device code
  reply,    \* the server's answer to the request under way
  \* history variable
  approvedAt

deviceVars == <<clock, client, code, reply, approvedAt>>

\* How a sign-in ends.
Ended == {"signed in", "expired", "denied", "failed"}

\* States of the command in which a request is under way.
Requesting == {"asking", "polling", "identifying"}

Floor(i) == IF i < 1 THEN 1 ELSE i

\* What the server asks for when it names no interval is the protocol's default.
Asked(i) == IF i = NoInterval THEN DefaultInterval ELSE i

Says(a) == [says |-> a, lifetime |-> 0, interval |-> NoInterval]

DeviceInit ==
  /\ clock = 0
  /\ client = [pc |-> "start", at |-> 0, interval |-> 1, remaining |-> 0]
  /\ code = [grant |-> "none", expires |-> 0, interval |-> 0, last |-> 0]
  /\ reply = Says("nothing")
  /\ approvedAt = Never

-----------------------------------------------------------------------------
(* The auth server.  An expired code is reported by a server that notices. *)

Answers ==
  CASE code.grant = "denied" -> {"denied"}
    [] code.grant = "approved" /\ clock < code.expires -> {"approved"}
    [] code.grant = "pending" /\ clock < code.expires -> {"pending", "slow_down"}
    [] OTHER -> {"expired", "pending", "slow_down"}

\* The server gets to the request under way.
Serving(pc) == client.pc = pc /\ reply.says = "nothing"

\* A token is issued once; being asked to slow down holds from then on.
Answer(a) ==
  /\ Serving("polling")
  /\ a \in Answers
  /\ reply' = Says(a)
  /\ code' = [grant |-> IF a = "approved" THEN "spent" ELSE code.grant,
              expires |-> code.expires,
              interval |-> code.interval + (IF a = "slow_down" THEN SlowDownBy ELSE 0),
              last |-> clock]
  /\ UNCHANGED <<clock, client, approvedAt>>

Issue(lifetime, i) ==
  /\ Serving("asking")
  /\ reply' = [says |-> "code", lifetime |-> lifetime, interval |-> i]
  /\ code' = [grant |-> "pending", expires |-> clock + lifetime,
              interval |-> Asked(i), last |-> clock]
  /\ UNCHANGED <<clock, client, approvedAt>>

Server ==
  \/ \E lifetime \in Lifetimes, i \in Intervals \cup {NoInterval} : Issue(lifetime, i)
  \/ \E a \in {"denied", "approved", "pending", "slow_down", "expired"} : Answer(a)

\* The user, on any device, once the code is shown and while it can be approved.
Decide(grant) ==
  /\ client.pc # "asking"
  /\ code.grant = "pending" /\ clock < code.expires
  /\ code' = [code EXCEPT !.grant = grant]
  /\ approvedAt' = IF grant = "approved" THEN clock ELSE approvedAt
  /\ UNCHANGED <<clock, client, reply>>

-----------------------------------------------------------------------------
(* The command.                                                            *)

ClientBecomes(pc, at, interval, remaining) ==
  client' = [pc |-> pc, at |-> at, interval |-> interval, remaining |-> remaining]

Goes(pc) == ClientBecomes(pc, clock, client.interval, client.remaining)

RequestCode ==
  /\ client.pc = "start"
  /\ Goes("asking")
  /\ UNCHANGED <<clock, code, reply, approvedAt>>

\* Mutant of Loop: no sleep past the end of the code's lifetime.
MutNoLastSleep(interval, remaining) ==
  ClientBecomes(IF remaining < interval THEN "expired" ELSE "sleeping",
                clock + interval, interval, remaining)

\* The head of the loop: no time left, or one more sleep.
Loop(interval, remaining) ==
  ClientBecomes(IF remaining <= 0 THEN "expired" ELSE "sleeping",
                clock + interval, interval, remaining)

ReceiveCode ==
  /\ client.pc = "asking" /\ reply.says = "code"
  /\ Loop(Floor(Asked(reply.interval)), reply.lifetime)
  /\ reply' = Says("nothing")
  /\ UNCHANGED <<clock, code, approvedAt>>

\* Mutant of Poll: only the server says when the code has expired.
MutNoBudget ==
  /\ client.pc = "sleeping" /\ clock >= client.at
  /\ Goes("polling")
  /\ UNCHANGED <<clock, code, reply, approvedAt>>

\* What was slept is taken off the budget, and the request is sent.
Poll ==
  /\ client.pc = "sleeping" /\ clock >= client.at
  /\ ClientBecomes("polling", clock, client.interval, client.remaining - client.interval)
  /\ UNCHANGED <<clock, code, reply, approvedAt>>

\* Mutant of KeepPolling: one longer sleep, then the old interval again.
MutForgetSlowDown ==
  /\ reply.says \in {"pending", "slow_down"}
  /\ ClientBecomes(IF client.remaining <= 0 THEN "expired" ELSE "sleeping",
                   clock + client.interval + (IF reply.says = "slow_down" THEN SlowDownBy ELSE 0),
                   client.interval, client.remaining)

KeepPolling ==
  \/ reply.says = "pending" /\ Loop(client.interval, client.remaining)
  \/ reply.says = "slow_down" /\ Loop(client.interval + SlowDownBy, client.remaining)

ReceiveAnswer ==
  /\ client.pc = "polling"
  /\ \/ KeepPolling
     \/ reply.says = "approved" /\ Goes("identifying")
     \/ reply.says \in {"denied", "expired"} /\ Goes(reply.says)
  /\ reply' = Says("nothing")
  /\ UNCHANGED <<clock, code, approvedAt>>

\* A request that fails ends the sign-in, whichever it is: no answer in time, or
\* one the client does not know.
RequestFails ==
  /\ client.pc \in Requesting
  /\ Goes("failed")
  /\ reply' = Says("nothing")
  /\ UNCHANGED <<clock, code, approvedAt>>

\* The identity is there, and the sign-in is stored (SignIn, SaveLogin).
Identified ==
  /\ client.pc = "identifying"
  /\ Goes("signed in")
  /\ UNCHANGED <<clock, code, reply, approvedAt>>

-----------------------------------------------------------------------------

\* A request is over by its time-out, and a sleeper is woken.
Due ==
  \/ client.pc \in Requesting /\ clock >= client.at + Latency
  \/ client.pc = "sleeping" /\ clock >= client.at + Lateness

Tick ==
  /\ client.pc \notin Ended \cup {"start"}
  /\ ~Due /\ clock < MaxClock
  /\ clock' = clock + 1
  /\ UNCHANGED <<client, code, reply, approvedAt>>

Command == RequestCode \/ ReceiveCode \/ Poll \/ ReceiveAnswer \/ RequestFails \/ Identified

DeviceNext == Command \/ Server \/ Tick \/ \E grant \in {"approved", "denied"} : Decide(grant)

DeviceSpec == DeviceInit /\ [][DeviceNext]_deviceVars

\* Time passes and the runtime runs the command; the user and the server need do
\* nothing.
DeviceFairSpec == DeviceSpec /\ WF_deviceVars(Command \/ Tick)

-----------------------------------------------------------------------------

Clients == [pc : Ended \cup Requesting \cup {"start", "sleeping"},
            at : Int, interval : Nat \ {0}, remaining : Int]

Codes == [grant : {"none", "pending", "approved", "denied", "spent"},
          expires : Int, interval : Int, last : Nat]

Replies == [says : {"nothing", "code", "pending", "slow_down", "approved", "denied", "expired"},
            lifetime : Int, interval : Int \cup {NoInterval}]

DeviceTypeOK ==
  /\ clock \in Nat
  /\ client \in Clients
  /\ code \in Codes
  /\ reply \in Replies
  /\ approvedAt \in Nat \cup {Never}

\* The user is told that the code expired only when it has, however the client's
\* count of its sleeps and the server's clock drift apart, and an approval can
\* only be missed when it came within one interval (and the delays of the polls
\* before and after it) of that end.
ExpiredMeansExpired ==
  client.pc = "expired" =>
    /\ clock >= code.expires
    /\ approvedAt # Never =>
         approvedAt + client.interval + 2 * Latency + Lateness >= code.expires

\* No poll comes closer to the server's last answer than the server has asked for up
\* to then, also after it has asked several times to be polled less often.
PollsArePatient ==
  [][client.pc = "sleeping" /\ client'.pc = "polling"
       => clock - code.last >= code.interval]_deviceVars

\* A sign-in ends whatever the user and the server do: with a server that never
\* says that the code expired, too.
SignInEnds == <>(client.pc \in Ended)
=============================================================================
