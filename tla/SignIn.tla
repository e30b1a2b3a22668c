------------------------------- MODULE SignIn -------------------------------
(***************************************************************************)
(* The stored sign-in and the processes that share it: `actual login`,     *)
(* the commands that send its access token, the telemetry uploader, and    *)
(* `actual logout`.                                                        *)
(*                                                                         *)
(* The auth server rotates: a refresh token is good for one renewal.  The  *)
(* processes therefore renew, replace and delete the sign-in under one     *)
(* advisory lock, which the operating system releases when its holder dies *)
(* (auth/store.rs, auth/refresh.rs, telemetry/sign_in.rs, logout.rs).      *)
(*                                                                         *)
(* A save and a delete are single steps here; SecureFile shows that the    *)
(* locked ones are.                                                        *)
(***************************************************************************)
EXTENDS Naturals

CONSTANTS
  Procs,         \* processes of the CLI
  MaxSessions,   \* bound: sign-ins the auth server issues
  MaxRenewals,   \* bound: access tokens of one session
  MaxStarts,     \* bound: commands run
  Nobody,        \* who holds a free lock
  NoSignIn       \* the file of a user who is signed out

Sessions == 1..MaxSessions

\* The refresh token of a sign-in that was issued without one.
NoRefresh == 0

\* Refresh tokens of one session are numbered in the order they were issued, as
\* are its access tokens.
Credentials == [session : Sessions, refresh : 0..MaxRenewals, access : 1..MaxRenewals]

ASSUME SignInAssumption ==
  /\ MaxSessions \in Nat /\ MaxRenewals \in Nat \ {0} /\ MaxStarts \in Nat
  /\ Nobody \notin Procs
  /\ NoSignIn \notin Credentials

VARIABLES
  file,      \* credentials.yaml
  lock,      \* who holds credentials.lock
  proc,      \* the processes, and the sign-in each has in memory
  current,   \* the server: the refresh token each session honours now
  ended,     \* the server: sessions it no longer honours at all
  issued,    \* the server: sessions handed out so far
  stale,     \* <<session, access>> that expire within a minute
  started,   \* bound: commands run so far
  \* history variables
  lost,      \* sessions with a renewal nobody could save
  revoked    \* sessions whose sign-out the server confirmed

server == <<current, ended, issued>>
vars == <<file, lock, proc, server, stale, started, lost, revoked>>

Idle == [pc |-> "idle", mem |-> NoSignIn]

Init ==
  /\ file = NoSignIn
  /\ lock = Nobody
  /\ proc = [p \in Procs |-> Idle]
  /\ current = [s \in Sessions |-> NoRefresh]
  /\ ended = {}
  /\ issued = 0
  /\ stale = {}
  /\ started = 0
  /\ lost = {}
  /\ revoked = {}

Becomes(p, pc, mem) == proc' = [proc EXCEPT ![p] = [pc |-> pc, mem |-> mem]]

\* p is through; a lock it held is dropped with it.
Done(p) ==
  /\ Becomes(p, "idle", NoSignIn)
  /\ lock' = IF lock = p THEN Nobody ELSE lock

\* A sign-in without a refresh token is never renewed, however old.
NeedsRefresh(c) == c.refresh # NoRefresh /\ <<c.session, c.access>> \in stale

MayStart(p) == started < MaxStarts /\ proc[p].pc = "idle"

-----------------------------------------------------------------------------
(* Renewing.                                                               *)

\* A command or the uploader reads the sign-in, without the lock.  A fresh one
\* is used as it is; a stale one is renewed under the lock.  `wait` is the
\* command, which blocks in lock(); `poll` the uploader, which tries until its
\* deadline.
StartRenewal(p, waiting) ==
  /\ MayStart(p)
  /\ file # NoSignIn /\ NeedsRefresh(file)
  /\ Becomes(p, waiting, file)
  /\ started' = started + 1
  /\ UNCHANGED <<file, lock, server, stale, lost, revoked>>

\* Mutant of AcquireForRenewal: renews what was read before the wait.
MutTrustMemory(p) ==
  /\ proc[p].pc \in {"wait", "poll"}
  /\ lock = Nobody
  /\ lock' = p /\ Becomes(p, "renew", proc[p].mem)
  /\ UNCHANGED <<file, server, stale, started, lost, revoked>>

\* The lock is taken and the sign-in read again.  One that is gone or that the
\* last holder renewed leaves nothing to do.
AcquireForRenewal(p) ==
  /\ proc[p].pc \in {"wait", "poll"}
  /\ lock = Nobody
  /\ IF file # NoSignIn /\ NeedsRefresh(file)
       THEN lock' = p /\ Becomes(p, "renew", file)
       ELSE Done(p)
  /\ UNCHANGED <<file, server, stale, started, lost, revoked>>

\* The uploader's deadline passes while another process holds the lock.
GiveUp(p) ==
  /\ proc[p].pc = "poll"
  /\ lock # Nobody
  /\ Done(p)
  /\ UNCHANGED <<file, server, stale, started, lost, revoked>>

Honours(c) == c.session \notin ended /\ current[c.session] = c.refresh

\* Mutant of Renew: a rotated refresh token is not taken over from the answer.
MutKeepOldToken(p) ==
  LET c == proc[p].mem
  IN  /\ proc[p].pc = "renew"
      /\ Honours(c)
      /\ c.access < MaxRenewals
      /\ \E rotated \in BOOLEAN :
           /\ current' = [current EXCEPT ![c.session] = IF rotated THEN c.access + 1 ELSE c.refresh]
           /\ Becomes(p, "save", [c EXCEPT !.access = c.access + 1])
      /\ UNCHANGED <<file, lock, ended, issued, stale, started, lost, revoked>>

\* The server renews the session.  It may rotate the refresh token, or leave it
\* out of its answer, and then the old one stays good.
Renew(p) ==
  LET c == proc[p].mem
  IN  /\ proc[p].pc = "renew"
      /\ Honours(c)
      /\ c.access < MaxRenewals
      /\ \E rotated \in BOOLEAN :
           LET new == [c EXCEPT !.access = c.access + 1,
                                !.refresh = IF rotated THEN c.access + 1 ELSE c.refresh]
           IN  /\ current' = [current EXCEPT ![c.session] = new.refresh]
               /\ Becomes(p, "save", new)
      /\ UNCHANGED <<file, lock, ended, issued, stale, started, lost, revoked>>

\* The answer to a rotation never arrives, or can't be read.
LoseRenewal(p) ==
  LET c == proc[p].mem
  IN  /\ proc[p].pc = "renew"
      /\ Honours(c)
      /\ c.access < MaxRenewals
      /\ current' = [current EXCEPT ![c.session] = c.access + 1]
      /\ lost' = lost \cup {c.session}
      /\ Done(p)
      /\ UNCHANGED <<file, ended, issued, stale, started, revoked>>

\* Mutant of RenewalFails: the holder tries again until it succeeds.
MutRetryForever(p) == proc[p].pc = "renew" /\ UNCHANGED vars

\* invalid_grant, an outage, or the 30 s timeout before the server saw anything.
RenewalFails(p) ==
  /\ proc[p].pc = "renew"
  /\ Done(p)
  /\ UNCHANGED <<file, server, stale, started, lost, revoked>>

SaveRenewal(p) ==
  /\ proc[p].pc = "save"
  /\ file' = proc[p].mem
  /\ Done(p)
  /\ UNCHANGED <<server, stale, started, lost, revoked>>

-----------------------------------------------------------------------------
(* Signing in and out.                                                     *)

\* The browser or device flow ends with a new session, with or without a
\* refresh token.  The lock is not held: the user may take minutes.
Login(p) ==
  /\ MayStart(p)
  /\ issued < MaxSessions
  /\ issued' = issued + 1
  /\ \E refresh \in {NoRefresh, 1} :
       /\ current' = [current EXCEPT ![issued + 1] = refresh]
       /\ Becomes(p, "login", [session |-> issued + 1, refresh |-> refresh, access |-> 1])
  /\ started' = started + 1
  /\ UNCHANGED <<file, lock, ended, stale, lost, revoked>>

SaveLogin(p) ==
  /\ proc[p].pc = "login"
  /\ lock = Nobody
  /\ file' = proc[p].mem
  /\ Done(p)
  /\ UNCHANGED <<server, stale, started, lost, revoked>>

StartLogout(p) ==
  /\ MayStart(p)
  /\ Becomes(p, "logout", NoSignIn)
  /\ started' = started + 1
  /\ UNCHANGED <<file, lock, server, stale, lost, revoked>>

\* Mutant of AcquireForLogout: the sign-in is read, and revoked, without the lock.
MutUnlockedLogout(p) ==
  /\ proc[p].pc = "logout"
  /\ IF file # NoSignIn THEN Becomes(p, "revoke", file) ELSE Becomes(p, "idle", NoSignIn)
  /\ UNCHANGED <<file, lock, server, stale, started, lost, revoked>>

\* The lock is taken, however long that takes, and the sign-in read; without one
\* there is nothing to do.
AcquireForLogout(p) ==
  /\ proc[p].pc = "logout"
  /\ lock = Nobody
  /\ IF file # NoSignIn
       THEN lock' = p /\ Becomes(p, "revoke", file)
       ELSE Done(p)
  /\ UNCHANGED <<file, server, stale, started, lost, revoked>>

\* The server confirms the revocation of a token it honours by ending the
\* session, and of any other one by doing nothing (RFC 7009).
Revoke(p) ==
  LET c == proc[p].mem
  IN  /\ proc[p].pc = "revoke"
      /\ ended' = IF Honours(c) THEN ended \cup {c.session} ELSE ended
      /\ revoked' = revoked \cup {c.session}
      /\ Becomes(p, "delete", c)
      /\ UNCHANGED <<file, lock, current, issued, stale, started, lost>>

\* The user is warned, and signed out here all the same.
RevokeFails(p) ==
  /\ proc[p].pc = "revoke"
  /\ Becomes(p, "delete", proc[p].mem)
  /\ UNCHANGED <<file, lock, server, stale, started, lost, revoked>>

Delete(p) ==
  /\ proc[p].pc = "delete"
  /\ file' = NoSignIn
  /\ Done(p)
  /\ UNCHANGED <<server, stale, started, lost, revoked>>

-----------------------------------------------------------------------------
(* The world.                                                              *)

\* A process dies, or its save fails.  A rotation it had not saved is lost.
Kill(p) ==
  /\ proc[p].pc # "idle"
  /\ lost' = IF proc[p].pc = "save" /\ proc[p].mem.refresh # file.refresh
               THEN lost \cup {proc[p].mem.session} ELSE lost
  /\ Done(p)
  /\ UNCHANGED <<file, server, stale, started, revoked>>

\* The access token of the stored sign-in comes within a minute of its expiry.
GrowStale ==
  /\ file # NoSignIn
  /\ stale' = stale \cup {<<file.session, file.access>>}
  /\ UNCHANGED <<file, lock, proc, server, started, lost, revoked>>

\* A session is ended from elsewhere, say by an administrator.
EndSession(s) ==
  /\ s \in 1..issued
  /\ ended' = ended \cup {s}
  /\ UNCHANGED <<file, lock, proc, current, issued, stale, started, lost, revoked>>

\* What a process that is under way does by itself.
Proceed(p) ==
  \/ AcquireForRenewal(p) \/ GiveUp(p)
  \/ Renew(p) \/ LoseRenewal(p) \/ RenewalFails(p) \/ SaveRenewal(p)
  \/ SaveLogin(p)
  \/ AcquireForLogout(p) \/ Revoke(p) \/ RevokeFails(p) \/ Delete(p)

Start(p) ==
  \/ \E waiting \in {"wait", "poll"} : StartRenewal(p, waiting)
  \/ Login(p)
  \/ StartLogout(p)

Next ==
  \/ GrowStale
  \/ \E s \in Sessions : EndSession(s)
  \/ \E p \in Procs : Start(p) \/ Proceed(p) \/ Kill(p)

Spec == Init /\ [][Next]_vars

\* A process that can go on does: system calls return, and every request ends
\* within its 30 s timeout.
FairSpec == Spec /\ \A p \in Procs : WF_vars(Proceed(p))

-----------------------------------------------------------------------------
(* Properties.                                                             *)

Process == [pc  : {"idle", "wait", "poll", "renew", "save", "login", "logout", "revoke", "delete"},
            mem : Credentials \cup {NoSignIn}]

TypeOK ==
  /\ file \in Credentials \cup {NoSignIn}
  /\ lock \in Procs \cup {Nobody}
  /\ proc \in [Procs -> Process]
  /\ current \in [Sessions -> 0..MaxRenewals]
  /\ ended \subseteq Sessions
  /\ issued \in 0..MaxSessions
  /\ started \in 0..MaxStarts
  /\ lost \subseteq Sessions
  /\ revoked \subseteq Sessions

\* The stored refresh token is the one the server honours whenever nobody is at
\* work on it, unless a renewal of that session was lost: no interleaving of
\* commands, uploads, sign-ins and sign-outs leaves a spent token behind.
StoredIsCurrent ==
  (file # NoSignIn /\ lock = Nobody) =>
    file.session \in lost \/ current[file.session] = file.refresh

\* "Rather than spending a refresh token the server has already taken": a
\* process presents a spent refresh token only after a lost renewal.
NoSpentToken ==
  \A p \in Procs : proc[p].pc = "renew" =>
    proc[p].mem.session \in lost \/ current[proc[p].mem.session] = proc[p].mem.refresh

\* A renewal saves over the very session it renewed: it never undoes a sign-in
\* or a sign-out that happened while it waited or was on the network.
RenewalReplacesItself ==
  [][\A p \in Procs : SaveRenewal(p) =>
       file # NoSignIn /\ file.session = proc[p].mem.session]_vars

\* A sign-out the server confirmed leaves no live session behind: no renewal
\* slips between the revocation and the delete, or had slipped in before.
SignOutIsFinal == revoked \subseteq ended \cup lost

\* Nobody waits for ever for the lock, whoever dies holding it: not a renewal, not
\* a sign-in that has to be saved, not a sign-out.
NobodyWaitsForever == \A p \in Procs : proc[p].pc # "idle" ~> proc[p].pc = "idle"

-----------------------------------------------------------------------------
(* The inductive invariant.                                                *)

Holding == {"renew", "save", "revoke", "delete"}

\* The lock is held by the process that works on the sign-in, and by no other.
LockHeld == \A p \in Procs : proc[p].pc \in Holding <=> lock = p

\* The holder works on the sign-in in the file.
HolderIsUpToDate ==
  \A p \in Procs :
    /\ proc[p].pc \in {"renew", "revoke"} => file # NoSignIn /\ proc[p].mem = file
    /\ proc[p].pc = "save" =>
         /\ file # NoSignIn /\ file.session = proc[p].mem.session
         /\ current[proc[p].mem.session] = proc[p].mem.refresh
    /\ proc[p].pc = "delete" => file # NoSignIn

\* The refresh token in the file is honoured, unless its replacement was lost or
\* is about to be saved.
FileIsCurrent ==
  file # NoSignIn =>
    \/ file.session \in lost
    \/ current[file.session] = file.refresh
    \/ \E p \in Procs : proc[p].pc = "save"

\* A session that is not saved yet belongs to one process, and is as issued.
LoginIsNew ==
  \A p \in Procs : proc[p].pc = "login" =>
    LET c == proc[p].mem
    IN  /\ c # NoSignIn /\ c.session <= issued
        /\ current[c.session] = c.refresh
        /\ file # NoSignIn => file.session # c.session
        /\ \A q \in Procs \ {p} : proc[q].pc = "login" => proc[q].mem.session # c.session

Inv ==
  /\ TypeOK
  /\ LockHeld
  /\ HolderIsUpToDate
  /\ FileIsCurrent
  /\ LoginIsNew
  /\ SignOutIsFinal
  /\ file # NoSignIn => file.session <= issued
=============================================================================
