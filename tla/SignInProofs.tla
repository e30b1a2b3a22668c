---------------------------- MODULE SignInProofs ----------------------------
(***************************************************************************)
(* Proofs about signing in.  The stored sign-in, for any number of         *)
(* processes, sessions and renewals: the lock and the second read keep the *)
(* stored refresh token current, and make a confirmed sign-out final.  The *)
(* device flow, for any lifetimes, intervals and delays: the client's      *)
(* budget outlasts the code, an approval waits for the next poll, and      *)
(* polls keep the distance the server asked for.                           *)
(***************************************************************************)
EXTENDS SignIn, DeviceSignIn, TLAPS

\* What the definition of Becomes says of every process.
LEMMA BecomesAt ==
  ASSUME TypeOK, NEW p \in Procs, NEW pc, NEW mem, Becomes(p, pc, mem)
  PROVE  /\ proc'[p].pc = pc /\ proc'[p].mem = mem
         /\ \A q \in Procs \ {p} : proc'[q] = proc[q]
         /\ DOMAIN proc' = Procs
  BY DEF TypeOK, Becomes

\* The new state of a process is a process.
LEMMA BecomesType ==
  ASSUME TypeOK, NEW p \in Procs, NEW mem \in Credentials \cup {NoSignIn},
         NEW pc \in {"idle", "wait", "poll", "renew", "save", "login", "logout", "revoke", "delete"},
         Becomes(p, pc, mem)
  PROVE  proc' \in [Procs -> Process]
<1>1. [pc |-> pc, mem |-> mem] \in Process
  BY DEF Process
<1> QED
  BY <1>1 DEF TypeOK, Becomes

\* A process that is through is idle, and holds no lock.
LEMMA DoneAt ==
  ASSUME TypeOK, LockHeld, NEW p \in Procs, Done(p)
  PROVE  /\ proc'[p].pc = "idle" /\ proc'[p].mem = NoSignIn
         /\ \A q \in Procs \ {p} : proc'[q] = proc[q]
         /\ proc' \in [Procs -> Process]
         /\ lock' \in Procs \cup {Nobody}
         /\ LockHeld'
<1>1. Becomes(p, "idle", NoSignIn)
  BY DEF Done
<1>2. /\ proc'[p].pc = "idle" /\ proc'[p].mem = NoSignIn
      /\ \A q \in Procs \ {p} : proc'[q] = proc[q]
  BY <1>1, BecomesAt
<1>3. proc' \in [Procs -> Process]
  BY <1>1, BecomesType
<1>4. lock' = IF lock = p THEN Nobody ELSE lock
  BY DEF Done
<1>5. lock' \in Procs \cup {Nobody}
  BY <1>4 DEF TypeOK
<1>6. LockHeld'
  BY <1>2, <1>4, SignInAssumption DEF LockHeld, Holding
<1> QED
  BY <1>2, <1>3, <1>5, <1>6

LEMMA InitInv == Init => Inv
<1> SUFFICES ASSUME Init PROVE Inv
  OBVIOUS
<1>1. Idle \in Process
  BY DEF Idle, Process
<1>2. 0 \in 0..MaxRenewals /\ 0 \in 0..MaxSessions /\ 0 \in 0..MaxStarts
  BY SignInAssumption
<1>3. TypeOK
  BY <1>1, <1>2 DEF Init, TypeOK, NoRefresh
<1>4. \A p \in Procs : proc[p].pc = "idle"
  BY DEF Init, Idle
<1>5. LockHeld
  BY <1>4, SignInAssumption DEF Init, LockHeld, Holding
<1> QED
  BY <1>3, <1>4, <1>5
     DEF Init, Inv, HolderIsUpToDate, FileIsCurrent, LoginIsNew, SignOutIsFinal

\* The steps that end a process and touch neither the file nor the server.
LEMMA JustDone ==
  ASSUME Inv, NEW p \in Procs, Done(p), UNCHANGED <<file, server, started, revoked>>,
         lost \subseteq lost', lost' \subseteq Sessions,
         proc[p].pc = "save" =>
           file.session \in lost' \/ current[file.session] = file.refresh
  PROVE  Inv'
<1>1. TypeOK /\ LockHeld
  BY DEF Inv
<1>2. /\ proc'[p].pc = "idle" /\ proc'[p].mem = NoSignIn
      /\ \A q \in Procs \ {p} : proc'[q] = proc[q]
      /\ proc' \in [Procs -> Process]
      /\ lock' \in Procs \cup {Nobody}
      /\ LockHeld'
  BY <1>1, DoneAt
<1>3. UNCHANGED <<file, current, ended, issued, started, revoked>>
  BY DEF server
<1>4. TypeOK'
  BY <1>1, <1>2, <1>3 DEF TypeOK
<1>5. HolderIsUpToDate'
  BY <1>2, <1>3 DEF Inv, HolderIsUpToDate
<1>6. FileIsCurrent'
  BY <1>2, <1>3 DEF Inv, FileIsCurrent
<1>7. LoginIsNew'
  BY <1>2, <1>3 DEF Inv, LoginIsNew
<1>8. SignOutIsFinal'
  BY <1>3 DEF Inv, SignOutIsFinal
<1> QED
  BY <1>2, <1>3, <1>4, <1>5, <1>6, <1>7, <1>8 DEF Inv

LEMMA StartRenewalInv ==
  ASSUME Inv, NEW p \in Procs, NEW waiting \in {"wait", "poll"}, StartRenewal(p, waiting)
  PROVE  Inv'
<1>1. TypeOK /\ file \in Credentials /\ started < MaxStarts /\ proc[p].pc = "idle"
  BY DEF Inv, TypeOK, StartRenewal, MayStart
<1>2. Becomes(p, waiting, file)
  BY DEF StartRenewal
<1>3. /\ proc'[p].pc = waiting /\ proc'[p].mem = file
      /\ \A q \in Procs \ {p} : proc'[q] = proc[q]
  BY <1>1, <1>2, BecomesAt
<1>4. proc' \in [Procs -> Process]
  BY <1>1, <1>2, BecomesType
<1>5. /\ UNCHANGED <<file, lock, current, ended, issued, lost, revoked>>
      /\ started' = started + 1
  BY DEF StartRenewal, server
<1>6. started' \in 0..MaxStarts
  BY <1>1, <1>5, SignInAssumption DEF TypeOK
<1>7. TypeOK'
  BY <1>1, <1>4, <1>5, <1>6 DEF TypeOK
<1>8. LockHeld'
  BY <1>1, <1>3, <1>5 DEF Inv, LockHeld, Holding
<1>9. HolderIsUpToDate'
  BY <1>3, <1>5 DEF Inv, HolderIsUpToDate
<1>10. FileIsCurrent'
  BY <1>1, <1>3, <1>5 DEF Inv, FileIsCurrent
<1>11. LoginIsNew'
  BY <1>3, <1>5 DEF Inv, LoginIsNew
<1> QED
  BY <1>5, <1>7, <1>8, <1>9, <1>10, <1>11 DEF Inv, SignOutIsFinal

LEMMA AcquireForRenewalInv ==
  ASSUME Inv, NEW p \in Procs, AcquireForRenewal(p)
  PROVE  Inv'
<1>1. CASE Done(p)
  BY <1>1, JustDone DEF AcquireForRenewal, Inv, TypeOK, server
<1>2. CASE file # NoSignIn /\ lock' = p /\ Becomes(p, "renew", file)
  <2>1. TypeOK /\ file \in Credentials /\ proc[p].pc \in {"wait", "poll"} /\ lock = Nobody
    BY <1>2 DEF Inv, TypeOK, AcquireForRenewal
  <2>2. /\ proc'[p].pc = "renew" /\ proc'[p].mem = file
        /\ \A q \in Procs \ {p} : proc'[q] = proc[q]
    BY <1>2, <2>1, BecomesAt
  <2>3. proc' \in [Procs -> Process]
    BY <1>2, <2>1, BecomesType
  <2>4. UNCHANGED <<file, current, ended, issued, started, lost, revoked>>
    BY DEF AcquireForRenewal, server
  <2>5. TypeOK'
    BY <1>2, <2>1, <2>3, <2>4 DEF TypeOK
  <2>6. LockHeld'
    BY <1>2, <2>1, <2>2, SignInAssumption DEF Inv, LockHeld, Holding
  <2>7. HolderIsUpToDate'
    BY <1>2, <2>2, <2>4 DEF Inv, HolderIsUpToDate
  <2>8. FileIsCurrent'
    BY <2>1, <2>2, <2>4 DEF Inv, FileIsCurrent
  <2>9. LoginIsNew'
    BY <2>2, <2>4 DEF Inv, LoginIsNew
  <2> QED
    BY <2>4, <2>5, <2>6, <2>7, <2>8, <2>9 DEF Inv, SignOutIsFinal
<1> QED
  BY <1>1, <1>2 DEF AcquireForRenewal

\* What is known of a process that is about to renew.
LEMMA Renewing ==
  ASSUME Inv, NEW p \in Procs, proc[p].pc = "renew"
  PROVE  /\ lock = p /\ file \in Credentials /\ proc[p].mem = file
         /\ \A q \in Procs \ {p} : proc[q].pc \notin Holding
         /\ \A q \in Procs : proc[q].pc = "login" => proc[q].mem.session # file.session
  BY DEF Inv, LockHeld, Holding, HolderIsUpToDate, LoginIsNew, TypeOK

LEMMA RenewInv ==
  ASSUME Inv, NEW p \in Procs, Renew(p)
  PROVE  Inv'
<1>1. /\ TypeOK /\ proc[p].pc = "renew"
      /\ lock = p /\ file \in Credentials /\ proc[p].mem = file
      /\ \A q \in Procs \ {p} : proc[q].pc \notin Holding
      /\ \A q \in Procs : proc[q].pc = "login" => proc[q].mem.session # file.session
  BY Renewing DEF Renew, Inv
<1>2. PICK rotated \in BOOLEAN :
        LET new == [file EXCEPT !.access = file.access + 1,
                                !.refresh = IF rotated THEN file.access + 1 ELSE file.refresh]
        IN  /\ current' = [current EXCEPT ![file.session] = new.refresh]
            /\ Becomes(p, "save", new)
  BY <1>1 DEF Renew
<1> DEFINE new == [file EXCEPT !.access = file.access + 1,
                               !.refresh = IF rotated THEN file.access + 1 ELSE file.refresh]
<1>3. new \in Credentials /\ new.session = file.session
  <2>1. file.access \in 1..MaxRenewals /\ file.refresh \in 0..MaxRenewals /\ file.session \in Sessions
    BY <1>1 DEF Credentials
  <2>2. file.access < MaxRenewals /\ MaxRenewals \in Nat
    BY <1>1, SignInAssumption DEF Renew
  <2>3. file.access + 1 \in 1..MaxRenewals /\ file.access + 1 \in 0..MaxRenewals
    BY <2>1, <2>2
  <2>4. [file EXCEPT !.access = file.access + 1] \in Credentials
    BY <1>1, <2>3 DEF Credentials
  <2> QED
    BY <1>1, <2>1, <2>3 DEF Credentials
<1>4. current' = [current EXCEPT ![file.session] = new.refresh] /\ Becomes(p, "save", new)
  BY <1>2
<1> HIDE DEF new
<1>5. /\ proc'[p].pc = "save" /\ proc'[p].mem = new
      /\ \A q \in Procs \ {p} : proc'[q] = proc[q]
  BY <1>1, <1>4, BecomesAt
<1>6. proc' \in [Procs -> Process]
  BY <1>1, <1>3, <1>4, BecomesType
<1>7. UNCHANGED <<file, lock, ended, issued, started, lost, revoked>>
  BY DEF Renew
<1>8. /\ current \in [Sessions -> 0..MaxRenewals] /\ file.session \in Sessions
      /\ new.refresh \in 0..MaxRenewals
  BY <1>1, <1>3 DEF TypeOK, Credentials
<1>9. /\ current' \in [Sessions -> 0..MaxRenewals]
      /\ current'[file.session] = new.refresh
      /\ \A s \in Sessions : s # file.session => current'[s] = current[s]
  BY <1>4, <1>8
<1>10. TypeOK'
  BY <1>1, <1>6, <1>7, <1>9 DEF TypeOK
<1>11. LockHeld'
  BY <1>1, <1>5, <1>7 DEF Inv, LockHeld, Holding
<1>12. HolderIsUpToDate'
  <2>1. file # NoSignIn
    BY <1>1, SignInAssumption
  <2> QED
    BY <2>1, <1>1, <1>3, <1>5, <1>7, <1>9 DEF HolderIsUpToDate, Holding
<1>13. FileIsCurrent'
  BY <1>5 DEF FileIsCurrent
<1>14. LoginIsNew'
  <2>1. \A q \in Procs : proc[q].pc = "login" => q # p /\ proc[q].mem \in Credentials
    BY <1>1 DEF Inv, LoginIsNew, TypeOK, Process
  <2>2. \A q \in Procs : proc[q].pc = "login" =>
          current'[proc[q].mem.session] = current[proc[q].mem.session]
    BY <2>1, <1>1, <1>9 DEF Credentials
  <2> QED
    BY <2>1, <2>2, <1>5, <1>7 DEF Inv, LoginIsNew
<1> QED
  BY <1>7, <1>10, <1>11, <1>12, <1>13, <1>14 DEF Inv, SignOutIsFinal

LEMMA LoseRenewalInv ==
  ASSUME Inv, NEW p \in Procs, LoseRenewal(p)
  PROVE  Inv'
<1>1. /\ TypeOK /\ LockHeld /\ proc[p].pc = "renew"
      /\ lock = p /\ file \in Credentials /\ proc[p].mem = file
      /\ \A q \in Procs \ {p} : proc[q].pc \notin Holding
      /\ \A q \in Procs : proc[q].pc = "login" => proc[q].mem.session # file.session
  BY Renewing DEF LoseRenewal, Inv
<1>2. /\ current' = [current EXCEPT ![file.session] = file.access + 1]
      /\ file.access < MaxRenewals
      /\ lost' = lost \cup {file.session} /\ Done(p)
      /\ UNCHANGED <<file, ended, issued, started, revoked>>
  BY <1>1 DEF LoseRenewal
<1>3. /\ proc'[p].pc = "idle" /\ proc'[p].mem = NoSignIn
      /\ \A q \in Procs \ {p} : proc'[q] = proc[q]
      /\ proc' \in [Procs -> Process]
      /\ lock' \in Procs \cup {Nobody}
      /\ LockHeld'
  BY <1>1, <1>2, DoneAt
<1>4. /\ current \in [Sessions -> 0..MaxRenewals] /\ file.session \in Sessions
      /\ file.access + 1 \in 0..MaxRenewals
  BY <1>1, <1>2, SignInAssumption DEF TypeOK, Credentials
<1>5. /\ current' \in [Sessions -> 0..MaxRenewals]
      /\ \A s \in Sessions : s # file.session => current'[s] = current[s]
  BY <1>2, <1>4
<1>6. TypeOK'
  BY <1>1, <1>2, <1>3, <1>4, <1>5 DEF TypeOK
<1>7. HolderIsUpToDate'
  BY <1>1, <1>3 DEF HolderIsUpToDate, Holding
<1>8. FileIsCurrent'
  BY <1>2 DEF FileIsCurrent
<1>9. LoginIsNew'
  <2>1. \A q \in Procs : proc[q].pc = "login" => q # p /\ proc[q].mem \in Credentials
    BY <1>1 DEF Inv, LoginIsNew, TypeOK, Process
  <2>2. \A q \in Procs : proc[q].pc = "login" =>
          current'[proc[q].mem.session] = current[proc[q].mem.session]
    BY <2>1, <1>1, <1>5 DEF Credentials
  <2> QED
    BY <2>1, <2>2, <1>2, <1>3 DEF Inv, LoginIsNew
<1> QED
  BY <1>2, <1>3, <1>6, <1>7, <1>8, <1>9 DEF Inv, SignOutIsFinal

LEMMA SaveRenewalInv ==
  ASSUME Inv, NEW p \in Procs, SaveRenewal(p)
  PROVE  Inv' /\ file # NoSignIn /\ file.session = proc[p].mem.session
<1>1. /\ TypeOK /\ LockHeld /\ proc[p].pc = "save" /\ lock = p
      /\ file # NoSignIn /\ file.session = proc[p].mem.session
      /\ current[proc[p].mem.session] = proc[p].mem.refresh
      /\ \A q \in Procs \ {p} : proc[q].pc \notin Holding
  BY DEF SaveRenewal, Inv, LockHeld, Holding, HolderIsUpToDate
<1>2. /\ file' = proc[p].mem /\ Done(p)
      /\ UNCHANGED <<current, ended, issued, started, lost, revoked>>
  BY DEF SaveRenewal, server
<1>3. /\ proc'[p].pc = "idle" /\ proc'[p].mem = NoSignIn
      /\ \A q \in Procs \ {p} : proc'[q] = proc[q]
      /\ proc' \in [Procs -> Process]
      /\ lock' \in Procs \cup {Nobody}
      /\ LockHeld'
  BY <1>1, <1>2, DoneAt
<1>4. file' \in Credentials \cup {NoSignIn}
  BY <1>2 DEF Inv, TypeOK, Process
<1>5. TypeOK'
  BY <1>1, <1>2, <1>3, <1>4 DEF TypeOK
<1>6. HolderIsUpToDate'
  BY <1>1, <1>3 DEF HolderIsUpToDate, Holding
<1>7. FileIsCurrent'
  BY <1>1, <1>2 DEF FileIsCurrent
<1>8. LoginIsNew'
  BY <1>1, <1>2, <1>3 DEF Inv, LoginIsNew
<1>9. file'.session <= issued
  BY <1>1, <1>2 DEF Inv
<1> QED
  BY <1>1, <1>2, <1>3, <1>5, <1>6, <1>7, <1>8, <1>9 DEF Inv, SignOutIsFinal

LEMMA LoginInv ==
  ASSUME Inv, NEW p \in Procs, Login(p)
  PROVE  Inv'
<1>1. /\ TypeOK /\ proc[p].pc = "idle" /\ started < MaxStarts /\ issued < MaxSessions
  BY DEF Login, MayStart, Inv
<1>2. PICK refresh \in {NoRefresh, 1} :
        /\ current' = [current EXCEPT ![issued + 1] = refresh]
        /\ Becomes(p, "login", [session |-> issued + 1, refresh |-> refresh, access |-> 1])
  BY DEF Login
<1> DEFINE new == [session |-> issued + 1, refresh |-> refresh, access |-> 1]
<1>3. issued + 1 \in Sessions /\ issued \in Nat /\ issued' = issued + 1
  BY <1>1, SignInAssumption DEF TypeOK, Sessions, Login
<1>4. 1 \in 1..MaxRenewals /\ refresh \in 0..MaxRenewals
  BY <1>2, SignInAssumption DEF NoRefresh
<1>5. new \in Credentials /\ new.session = issued + 1 /\ new.refresh = refresh
  BY <1>3, <1>4 DEF Credentials
<1>6. Becomes(p, "login", new)
  BY <1>2
<1> HIDE DEF new
<1>7. /\ proc'[p].pc = "login" /\ proc'[p].mem = new
      /\ \A q \in Procs \ {p} : proc'[q] = proc[q]
  BY <1>1, <1>6, BecomesAt
<1>8. proc' \in [Procs -> Process]
  BY <1>1, <1>5, <1>6, BecomesType
<1>9. UNCHANGED <<file, lock, ended, lost, revoked>> /\ started' = started + 1
  BY DEF Login
<1>10. /\ current' \in [Sessions -> 0..MaxRenewals]
       /\ current'[issued + 1] = refresh
       /\ \A s \in Sessions : s # issued + 1 => current'[s] = current[s]
  BY <1>1, <1>2, <1>3, <1>4 DEF TypeOK
<1>11. started' \in 0..MaxStarts /\ issued' \in 0..MaxSessions
  BY <1>1, <1>3, <1>9, SignInAssumption DEF TypeOK
<1>12. TypeOK'
  BY <1>1, <1>8, <1>9, <1>10, <1>11 DEF TypeOK
<1>13. LockHeld'
  BY <1>1, <1>7, <1>9 DEF Inv, LockHeld, Holding
<1>14. file # NoSignIn => file.session \in Sessions /\ file.session <= issued /\ file.session # issued + 1
  BY <1>1, <1>3 DEF Inv, TypeOK, Credentials, Sessions
<1>15. HolderIsUpToDate'
  <2>1. \A q \in Procs : proc[q].pc = "save" => file # NoSignIn /\ proc[q].mem.session = file.session
    BY DEF Inv, HolderIsUpToDate
  <2> QED
    BY <2>1, <1>7, <1>9, <1>10, <1>14 DEF Inv, HolderIsUpToDate
<1>16. FileIsCurrent'
  BY <1>1, <1>7, <1>9, <1>10, <1>14 DEF Inv, FileIsCurrent
<1>17. LoginIsNew'
  <2>1. ASSUME NEW q \in Procs, proc[q].pc = "login"
        PROVE  /\ q # p /\ proc[q].mem # NoSignIn /\ proc[q].mem.session \in Sessions
               /\ proc[q].mem.session # issued + 1 /\ proc[q].mem.session <= issued + 1
               /\ current'[proc[q].mem.session] = proc[q].mem.refresh
    <3>1. proc[q].mem \in Credentials /\ proc[q].mem.session <= issued /\ q # p
      BY <1>1, <2>1 DEF Inv, TypeOK, LoginIsNew, Process
    <3>2. proc[q].mem.session \in Sessions /\ proc[q].mem.session \in Nat
      BY <3>1 DEF Credentials, Sessions
    <3>3. proc[q].mem.session # issued + 1 /\ proc[q].mem.session <= issued + 1
      BY <3>1, <3>2, <1>3
    <3>4. current[proc[q].mem.session] = proc[q].mem.refresh
      BY <2>1 DEF Inv, LoginIsNew
    <3> QED
      BY <3>1, <3>2, <3>3, <3>4, <1>10, SignInAssumption
  <2>2. new # NoSignIn
    BY <1>5, SignInAssumption
  <2> QED
    BY <2>1, <2>2, <1>3, <1>5, <1>7, <1>9, <1>10, <1>14 DEF Inv, LoginIsNew
<1>18. file' # NoSignIn => file'.session <= issued'
  BY <1>1, <1>3, <1>9, <1>14 DEF Sessions
<1> QED
  BY <1>9, <1>12, <1>13, <1>15, <1>16, <1>17, <1>18 DEF Inv, SignOutIsFinal

LEMMA SaveLoginInv ==
  ASSUME Inv, NEW p \in Procs, SaveLogin(p)
  PROVE  Inv'
<1>1. /\ TypeOK /\ LockHeld /\ proc[p].pc = "login" /\ lock = Nobody
      /\ proc[p].mem # NoSignIn /\ proc[p].mem.session <= issued
      /\ current[proc[p].mem.session] = proc[p].mem.refresh
      /\ \A q \in Procs : proc[q].pc \notin Holding
  BY SignInAssumption DEF SaveLogin, Inv, LoginIsNew, LockHeld
<1>2. /\ file' = proc[p].mem /\ Done(p)
      /\ UNCHANGED <<current, ended, issued, started, lost, revoked>>
  BY DEF SaveLogin, server
<1>3. /\ proc'[p].pc = "idle" /\ proc'[p].mem = NoSignIn
      /\ \A q \in Procs \ {p} : proc'[q] = proc[q]
      /\ proc' \in [Procs -> Process]
      /\ lock' \in Procs \cup {Nobody}
      /\ LockHeld'
  BY <1>1, <1>2, DoneAt
<1>4. file' \in Credentials \cup {NoSignIn}
  BY <1>2 DEF Inv, TypeOK, Process
<1>5. TypeOK'
  BY <1>1, <1>2, <1>3, <1>4 DEF TypeOK
<1>6. HolderIsUpToDate'
  BY <1>1, <1>3 DEF HolderIsUpToDate, Holding
<1>7. FileIsCurrent'
  BY <1>1, <1>2 DEF FileIsCurrent
<1>8. LoginIsNew'
  BY <1>1, <1>2, <1>3 DEF Inv, LoginIsNew
<1> QED
  BY <1>1, <1>2, <1>3, <1>5, <1>6, <1>7, <1>8 DEF Inv, SignOutIsFinal

LEMMA StartLogoutInv ==
  ASSUME Inv, NEW p \in Procs, StartLogout(p)
  PROVE  Inv'
<1>1. TypeOK /\ started < MaxStarts /\ proc[p].pc = "idle"
  BY DEF Inv, StartLogout, MayStart
<1>2. /\ Becomes(p, "logout", NoSignIn) /\ started' = started + 1
      /\ UNCHANGED <<file, lock, current, ended, issued, lost, revoked>>
  BY DEF StartLogout, server
<1>3. /\ proc'[p].pc = "logout" /\ proc'[p].mem = NoSignIn
      /\ \A q \in Procs \ {p} : proc'[q] = proc[q]
  BY <1>1, <1>2, BecomesAt
<1>4. proc' \in [Procs -> Process]
  BY <1>1, <1>2, BecomesType
<1>5. started' \in 0..MaxStarts
  BY <1>1, <1>2, SignInAssumption DEF TypeOK
<1>6. TypeOK'
  BY <1>1, <1>2, <1>4, <1>5 DEF TypeOK
<1>7. LockHeld'
  BY <1>1, <1>2, <1>3 DEF Inv, LockHeld, Holding
<1>8. HolderIsUpToDate'
  BY <1>2, <1>3 DEF Inv, HolderIsUpToDate
<1>9. FileIsCurrent'
  BY <1>1, <1>2, <1>3 DEF Inv, FileIsCurrent
<1>10. LoginIsNew'
  BY <1>2, <1>3 DEF Inv, LoginIsNew
<1> QED
  BY <1>2, <1>6, <1>7, <1>8, <1>9, <1>10 DEF Inv, SignOutIsFinal

LEMMA AcquireForLogoutInv ==
  ASSUME Inv, NEW p \in Procs, AcquireForLogout(p)
  PROVE  Inv'
<1>1. CASE Done(p)
  BY <1>1, JustDone DEF AcquireForLogout, Inv, TypeOK, server
<1>2. CASE file # NoSignIn /\ lock' = p /\ Becomes(p, "revoke", file)
  <2>1. TypeOK /\ file \in Credentials /\ proc[p].pc = "logout" /\ lock = Nobody
    BY <1>2 DEF Inv, TypeOK, AcquireForLogout
  <2>2. /\ proc'[p].pc = "revoke" /\ proc'[p].mem = file
        /\ \A q \in Procs \ {p} : proc'[q] = proc[q]
    BY <1>2, <2>1, BecomesAt
  <2>3. proc' \in [Procs -> Process]
    BY <1>2, <2>1, BecomesType
  <2>4. UNCHANGED <<file, current, ended, issued, started, lost, revoked>>
    BY DEF AcquireForLogout, server
  <2>5. TypeOK'
    BY <1>2, <2>1, <2>3, <2>4 DEF TypeOK
  <2>6. LockHeld'
    BY <1>2, <2>1, <2>2, SignInAssumption DEF Inv, LockHeld, Holding
  <2>7. HolderIsUpToDate'
    BY <1>2, <2>2, <2>4 DEF Inv, HolderIsUpToDate
  <2>8. FileIsCurrent'
    BY <2>1, <2>2, <2>4 DEF Inv, FileIsCurrent
  <2>9. LoginIsNew'
    BY <2>2, <2>4 DEF Inv, LoginIsNew
  <2> QED
    BY <2>4, <2>5, <2>6, <2>7, <2>8, <2>9 DEF Inv, SignOutIsFinal
<1> QED
  BY <1>1, <1>2 DEF AcquireForLogout

\* The two ways a revocation request ends.
LEMMA RevokeInv ==
  ASSUME Inv, NEW p \in Procs, Revoke(p) \/ RevokeFails(p)
  PROVE  Inv'
<1>1. /\ TypeOK /\ proc[p].pc = "revoke" /\ lock = p
      /\ file \in Credentials /\ file # NoSignIn /\ proc[p].mem = file
      /\ \A q \in Procs \ {p} : proc[q].pc \notin Holding
  BY DEF Revoke, RevokeFails, Inv, TypeOK, LockHeld, Holding, HolderIsUpToDate
<1>2. /\ Becomes(p, "delete", file)
      /\ UNCHANGED <<file, lock, current, issued, started, lost>>
      /\ \/ UNCHANGED <<ended, revoked>>
         \/ /\ revoked' = revoked \cup {file.session}
            /\ ended' = IF Honours(file) THEN ended \cup {file.session} ELSE ended
  BY <1>1 DEF Revoke, RevokeFails, server
<1>3. /\ proc'[p].pc = "delete" /\ proc'[p].mem = file
      /\ \A q \in Procs \ {p} : proc'[q] = proc[q]
  BY <1>1, <1>2, BecomesAt
<1>4. proc' \in [Procs -> Process]
  BY <1>1, <1>2, BecomesType
<1>5. file.session \in Sessions
  BY <1>1 DEF Credentials
<1>6. ended' \subseteq Sessions /\ revoked' \subseteq Sessions /\ ended \subseteq ended'
  BY <1>1, <1>2, <1>5 DEF TypeOK
<1>7. TypeOK'
  BY <1>1, <1>2, <1>4, <1>6 DEF TypeOK
<1>8. LockHeld'
  BY <1>1, <1>2, <1>3 DEF Inv, LockHeld, Holding
<1>9. HolderIsUpToDate'
  BY <1>1, <1>2, <1>3 DEF HolderIsUpToDate, Holding
<1>10. file.session \in lost \/ current[file.session] = file.refresh
  BY <1>1 DEF Inv, FileIsCurrent, Holding
<1>11. FileIsCurrent'
  BY <1>2, <1>10 DEF FileIsCurrent
<1>12. LoginIsNew'
  BY <1>2, <1>3 DEF Inv, LoginIsNew
<1>13. SignOutIsFinal'
  BY <1>2, <1>6, <1>10 DEF Inv, SignOutIsFinal, Honours
<1> QED
  BY <1>2, <1>7, <1>8, <1>9, <1>11, <1>12, <1>13 DEF Inv

LEMMA DeleteInv ==
  ASSUME Inv, NEW p \in Procs, Delete(p)
  PROVE  Inv'
<1>1. /\ TypeOK /\ LockHeld /\ proc[p].pc = "delete"
      /\ \A q \in Procs \ {p} : proc[q].pc \notin Holding
  BY DEF Delete, Inv, LockHeld, Holding
<1>2. /\ file' = NoSignIn /\ Done(p)
      /\ UNCHANGED <<current, ended, issued, started, lost, revoked>>
  BY DEF Delete, server
<1>3. /\ proc'[p].pc = "idle" /\ proc'[p].mem = NoSignIn
      /\ \A q \in Procs \ {p} : proc'[q] = proc[q]
      /\ proc' \in [Procs -> Process]
      /\ lock' \in Procs \cup {Nobody}
      /\ LockHeld'
  BY <1>1, <1>2, DoneAt
<1>4. TypeOK'
  BY <1>1, <1>2, <1>3 DEF TypeOK
<1>5. HolderIsUpToDate'
  BY <1>1, <1>3 DEF HolderIsUpToDate, Holding
<1>6. LoginIsNew'
  BY <1>2, <1>3 DEF Inv, LoginIsNew
<1> QED
  BY <1>2, <1>3, <1>4, <1>5, <1>6 DEF Inv, FileIsCurrent, SignOutIsFinal

LEMMA KillInv ==
  ASSUME Inv, NEW p \in Procs, Kill(p)
  PROVE  Inv'
<1>1. TypeOK /\ Done(p) /\ UNCHANGED <<file, server, started, revoked>>
  BY DEF Kill, Inv
<1>2. lost' = IF proc[p].pc = "save" /\ proc[p].mem.refresh # file.refresh
               THEN lost \cup {proc[p].mem.session} ELSE lost
  BY DEF Kill
<1>3. proc[p].pc = "save" =>
        /\ file # NoSignIn /\ file.session = proc[p].mem.session
        /\ current[file.session] = proc[p].mem.refresh
  BY DEF Inv, HolderIsUpToDate
<1>4. file # NoSignIn => file.session \in Sessions
  BY <1>1 DEF TypeOK, Credentials
<1>5. lost \subseteq lost' /\ lost' \subseteq Sessions
  BY <1>1, <1>2, <1>3, <1>4 DEF TypeOK
<1> QED
  BY <1>1, <1>2, <1>3, <1>5, JustDone

LEMMA WorldInv ==
  ASSUME Inv, GrowStale \/ (\E s \in Sessions : EndSession(s))
  PROVE  Inv'
<1>1. /\ UNCHANGED <<file, lock, proc, current, issued, started, lost, revoked>>
      /\ ended \subseteq ended' /\ ended' \subseteq Sessions
  BY DEF GrowStale, EndSession, server, Inv, TypeOK
<1> QED
  BY <1>1 DEF Inv, TypeOK, LockHeld, HolderIsUpToDate, FileIsCurrent, LoginIsNew, SignOutIsFinal

LEMMA NextInv == ASSUME Inv, [Next]_vars PROVE Inv'
<1>1. CASE UNCHANGED vars
  BY <1>1 DEF vars, server, Inv, TypeOK, LockHeld, HolderIsUpToDate, FileIsCurrent, LoginIsNew,
              SignOutIsFinal
<1>2. CASE GrowStale \/ \E s \in Sessions : EndSession(s)
  BY <1>2, WorldInv
<1>3. ASSUME NEW p \in Procs, Start(p) PROVE Inv'
  BY <1>3, StartRenewalInv, LoginInv, StartLogoutInv DEF Start
<1>4. ASSUME NEW p \in Procs, GiveUp(p) \/ RenewalFails(p) PROVE Inv'
  <2>1. /\ Done(p) /\ UNCHANGED <<file, server, started, revoked, lost>>
        /\ proc[p].pc # "save"
    BY <1>4 DEF GiveUp, RenewalFails
  <2> QED
    BY <2>1, JustDone DEF Inv, TypeOK
<1>5. ASSUME NEW p \in Procs, Proceed(p) PROVE Inv'
  BY <1>4, <1>5, AcquireForRenewalInv, RenewInv, LoseRenewalInv, SaveRenewalInv, SaveLoginInv,
     AcquireForLogoutInv, RevokeInv, DeleteInv DEF Proceed
<1>6. ASSUME NEW p \in Procs, Kill(p) PROVE Inv'
  BY <1>6, KillInv
<1> QED
  BY <1>1, <1>2, <1>3, <1>5, <1>6 DEF Next

-----------------------------------------------------------------------------

\* The inductive invariant holds of every behaviour.
THEOREM Inductive == Spec => []Inv
<1>1. Init => Inv
  BY InitInv
<1>2. Inv /\ [Next]_vars => Inv'
  BY NextInv
<1> QED
  BY <1>1, <1>2, PTL DEF Spec

\* The refresh token on disk is never a spent one while nobody is renewing it,
\* unless the answer to a rotation was lost.
THEOREM StoredTokenIsCurrent == Spec => []StoredIsCurrent
<1>1. Inv => StoredIsCurrent
  <2> SUFFICES ASSUME Inv, file # NoSignIn, lock = Nobody
               PROVE  file.session \in lost \/ current[file.session] = file.refresh
    BY DEF StoredIsCurrent
  <2>1. \A p \in Procs : proc[p].pc # "save"
    BY SignInAssumption DEF Inv, LockHeld, Holding
  <2> QED
    BY <2>1 DEF Inv, FileIsCurrent
<1> QED
  BY <1>1, Inductive, PTL

\* No process sends a refresh token the server has already replaced, unless the
\* replacement was lost on its way.
THEOREM SpentTokensStayHome == Spec => []NoSpentToken
<1>1. Inv => NoSpentToken
  <2> SUFFICES ASSUME Inv, NEW p \in Procs, proc[p].pc = "renew"
               PROVE  \/ proc[p].mem.session \in lost
                      \/ current[proc[p].mem.session] = proc[p].mem.refresh
    BY DEF NoSpentToken
  <2>1. proc[p].mem = file /\ file # NoSignIn /\ \A q \in Procs \ {p} : proc[q].pc \notin Holding
    BY Renewing DEF Inv, HolderIsUpToDate
  <2> QED
    BY <2>1 DEF Inv, FileIsCurrent, Holding
<1> QED
  BY <1>1, Inductive, PTL

\* A renewal is saved over the session it renewed, and over no other.
THEOREM RenewalsStayInTheirSession == Spec => RenewalReplacesItself
<1>1. Inv /\ [Next]_vars =>
        [\A p \in Procs : SaveRenewal(p) =>
           file # NoSignIn /\ file.session = proc[p].mem.session]_vars
  BY SaveRenewalInv
<1> QED
  BY <1>1, Inductive, PTL DEF Spec, RenewalReplacesItself

\* A sign-out that the server confirmed left no session alive that the CLI could
\* still have renewed.
THEOREM SignOutEndsTheSession == Spec => []SignOutIsFinal
<1>1. Inv => SignOutIsFinal
  BY DEF Inv
<1> QED
  BY <1>1, Inductive, PTL

-----------------------------------------------------------------------------
(* The device flow.                                                        *)

\* What the server said of the code reaches the client as it was said, and a
\* request is under way no longer than its time-out, with the answer in between.
RequestInv ==
  /\ client.pc = "asking" => reply.says \in {"nothing", "code"}
  /\ client.pc = "asking" /\ reply.says = "code" =>
       /\ reply.lifetime = code.expires - code.last
       /\ Asked(reply.interval) = code.interval
  /\ client.pc \in {"start", "asking"} => client.interval = 1
  /\ client.pc \in {"start", "sleeping"} => reply.says = "nothing"
  /\ client.pc \in {"asking", "polling"} /\ reply.says # "nothing" => client.at <= code.last
  /\ client.pc \in Requesting => client.at <= clock /\ clock <= client.at + Latency

\* A sleep begins when the last round is over and lasts the client's interval,
\* which is the server's or longer.
SleepInv ==
  /\ client.pc = "sleeping" =>
       /\ client.at >= code.last + client.interval
       /\ client.at <= code.last + Latency + client.interval
       /\ clock <= client.at + Lateness
       /\ client.interval >= code.interval
  /\ client.pc = "polling" /\ reply.says = "nothing" =>
       client.at <= code.last + Latency + client.interval + Lateness
  /\ client.pc = "polling" =>
       client.interval + (IF reply.says = "slow_down" THEN SlowDownBy ELSE 0)
         >= code.interval

\* The client has at least as much time left as the code.
BudgetInv ==
  /\ code.last <= clock
  /\ client.pc = "sleeping" => client.remaining + client.at - client.interval >= code.expires
  /\ client.pc = "polling" => client.remaining + client.at >= code.expires
  /\ client.pc = "polling" /\ reply.says = "expired" => code.last >= code.expires
  /\ client.pc = "expired" => code.last >= code.expires

InReach ==
  \/ approvedAt >= code.last
  \/ approvedAt + client.interval + 2 * Latency + Lateness >= code.expires

\* An approval is newer than the last answer, or came too late for it.
ApprovalInv ==
  /\ client.pc = "start" => code.grant = "none"
  /\ client.pc = "asking" => (reply.says = "nothing" <=> code.grant = "none")
  /\ code.grant = "none" => client.pc \in {"start", "asking", "failed"}
  /\ approvedAt # Never => code.grant \in {"approved", "spent"}
  /\ code.grant = "approved" => approvedAt \in Nat /\ InReach
  /\ code.grant = "spent" =>
       \/ client.pc = "polling" /\ reply.says = "approved"
       \/ client.pc \in {"identifying", "signed in", "failed"}

DeviceInv == DeviceTypeOK /\ RequestInv /\ SleepInv /\ BudgetInv /\ ApprovalInv

-----------------------------------------------------------------------------

\* What the server asks for is a number, and the client's interval positive.
LEMMA AskedType ==
  ASSUME NEW i \in Intervals \cup {NoInterval}
  PROVE  Asked(i) \in Int /\ i \in Int \cup {NoInterval}
  BY DeviceAssumption DEF Asked

\* An answer of the server is a reply.
LEMMA NothingType == \A a \in {"nothing", "pending", "slow_down", "approved", "denied", "expired"} :
                       Says(a) \in Replies
  BY DEF Says, Replies

\* A step of the command leaves a command.
LEMMA ClientType ==
  ASSUME NEW pc \in Ended \cup Requesting \cup {"start", "sleeping"},
         NEW at \in Int, NEW interval \in Nat \ {0}, NEW remaining \in Int
  PROVE  [pc |-> pc, at |-> at, interval |-> interval, remaining |-> remaining] \in Clients
  BY DEF Clients

LEMMA FloorType ==
  ASSUME NEW i \in Int
  PROVE  Floor(i) \in Nat \ {0} /\ Floor(i) >= i
  BY DEF Floor

\* The head of the loop, when a round of the request under way is over.
LEMMA LoopHolds ==
  ASSUME DeviceInv, NEW interval \in Nat \ {0}, NEW remaining \in Int,
         Loop(interval, remaining),
         interval >= code.interval, interval >= client.interval,
         client.pc \in {"asking", "polling"}, reply.says # "nothing",
         client.pc = "polling" => reply.says # "approved",
         reply' = Says("nothing"),
         remaining + code.last >= code.expires,
         UNCHANGED <<clock, code, approvedAt>>
  PROVE  DeviceInv'
<1> USE DEF DeviceInv
<1>1. client' = [pc |-> IF remaining <= 0 THEN "expired" ELSE "sleeping",
                 at |-> clock + interval, interval |-> interval, remaining |-> remaining]
  BY DEF Loop, ClientBecomes
<1>2. /\ clock \in Nat /\ code.last \in Nat /\ code.expires \in Int /\ code.interval \in Int
      /\ client.interval \in Nat /\ Latency \in Nat /\ Lateness \in Nat
  BY DeviceAssumption DEF DeviceTypeOK, Clients, Codes
<1>3. code.last <= clock /\ clock <= code.last + Latency
  <2>1. /\ client.at <= code.last /\ clock <= client.at + Latency /\ client.at \in Int
        /\ code.last <= clock
    BY DEF RequestInv, BudgetInv, Requesting, DeviceTypeOK, Clients
  <2>2. QED
    BY <1>2, <2>1
<1>4. DeviceTypeOK'
  <2>1. client' \in Clients
    BY <1>1, <1>2 DEF Clients, Ended
  <2>2. reply' \in Replies
    BY NothingType
  <2>3. QED
    BY <2>1, <2>2 DEF DeviceTypeOK
<1>5. RequestInv' /\ BudgetInv'
  BY <1>1, <1>2, <1>3 DEF RequestInv, BudgetInv, Requesting, Says
<1>6. SleepInv'
  BY <1>1, <1>2, <1>3, DeviceAssumption DEF SleepInv
<1>7. ApprovalInv'
  <2>1. client'.pc \in {"expired", "sleeping"} /\ client'.interval = interval
    BY <1>1
  <2>2. code.grant # "spent" /\ code.grant # "none"
    BY DEF ApprovalInv
  <2>3. approvedAt \in Nat /\ InReach => InReach'
    BY <1>2, <2>1 DEF InReach
  <2>4. QED
    BY <2>1, <2>2, <2>3 DEF ApprovalInv
<1>8. QED
  BY <1>4, <1>5, <1>6, <1>7

\* The state of the command and of the code is right in every reachable state, for
\* any lifetimes, intervals and delays.
THEOREM DeviceInductive == DeviceSpec => []DeviceInv
<1>1. DeviceInit => DeviceInv
  BY DeviceAssumption
  DEF DeviceInit, DeviceInv, DeviceTypeOK, RequestInv, SleepInv, BudgetInv, ApprovalInv, Says, Requesting, Ended,
      Clients, Codes, Replies
<1>2. DeviceInv /\ [DeviceNext]_deviceVars => DeviceInv'
  <2> SUFFICES ASSUME DeviceInv, [DeviceNext]_deviceVars PROVE DeviceInv'
    OBVIOUS
  <2> USE DEF DeviceInv
  <2>t. /\ clock \in Nat /\ code.last \in Nat /\ code.expires \in Int /\ code.interval \in Int
        /\ client.interval \in Nat \ {0} /\ client.remaining \in Int /\ client.at \in Int
        /\ Latency \in Nat /\ Lateness \in Nat /\ SlowDownBy \in Nat
        /\ reply.lifetime \in Int /\ reply.interval \in Int \cup {NoInterval}
    BY DeviceAssumption DEF DeviceTypeOK, Clients, Codes, Replies
  <2>1. CASE RequestCode
    <3>1. /\ client' = [pc |-> "asking", at |-> clock, interval |-> client.interval,
                        remaining |-> client.remaining]
          /\ client.pc = "start"
          /\ UNCHANGED <<clock, code, reply, approvedAt>>
      BY <2>1 DEF RequestCode, Goes, ClientBecomes
    <3>2. client' \in Clients
      BY <2>t, <3>1 DEF DeviceTypeOK, Clients, Requesting
    <3>3. DeviceTypeOK'
      BY <3>1, <3>2 DEF DeviceTypeOK
    <3>4. RequestInv' /\ BudgetInv'
      BY <2>t, <3>1 DEF RequestInv, BudgetInv, Requesting
    <3>5. SleepInv' /\ ApprovalInv'
      BY <3>1 DEF SleepInv, ApprovalInv, RequestInv
    <3>6. QED
      BY <3>3, <3>4, <3>5
  <2>2. CASE ReceiveCode
    <3>1. /\ client.pc = "asking" /\ reply.says = "code" /\ reply' = Says("nothing")
          /\ Loop(Floor(Asked(reply.interval)), reply.lifetime)
          /\ UNCHANGED <<clock, code, approvedAt>>
      BY <2>2 DEF ReceiveCode
    <3>2. /\ Asked(reply.interval) = code.interval
          /\ reply.lifetime = code.expires - code.last
          /\ client.interval = 1
      BY <3>1 DEF RequestInv
    <3>3. Floor(code.interval) \in Nat \ {0} /\ Floor(code.interval) >= code.interval
      BY <2>t, FloorType
    <3>4. QED
      BY <2>t, <3>1, <3>2, <3>3, LoopHolds
  <2>3. CASE Poll
    <3>1. /\ client.pc = "sleeping" /\ clock >= client.at
          /\ client' = [pc |-> "polling", at |-> clock, interval |-> client.interval,
                        remaining |-> client.remaining - client.interval]
          /\ UNCHANGED <<clock, code, reply, approvedAt>>
      BY <2>3 DEF Poll, ClientBecomes
    <3>2. client' \in Clients
      BY <2>t, <3>1 DEF DeviceTypeOK, Clients, Requesting
    <3>3. DeviceTypeOK'
      BY <3>1, <3>2 DEF DeviceTypeOK
    <3>4. /\ client'.pc = "polling" /\ client'.at = clock
          /\ client'.interval = client.interval
          /\ client'.remaining = client.remaining - client.interval
          /\ reply.says = "nothing"
      BY <3>1 DEF RequestInv
    <3>5. RequestInv'
      BY <2>t, <3>1, <3>4 DEF RequestInv, Requesting
    <3>6. SleepInv'
      BY <2>t, <3>1, <3>4 DEF SleepInv
    <3>7. BudgetInv'
      BY <2>t, <3>1, <3>4 DEF BudgetInv
    <3>8. ApprovalInv'
      BY <3>1, <3>4 DEF ApprovalInv, InReach
    <3>9. QED
      BY <3>3, <3>5, <3>6, <3>7, <3>8
  <2>4. CASE ReceiveAnswer
    <3>1. /\ client.pc = "polling" /\ reply.says # "nothing" /\ reply' = Says("nothing")
          /\ UNCHANGED <<clock, code, approvedAt>>
      BY <2>4 DEF ReceiveAnswer, KeepPolling
    <3>2. client.remaining + code.last >= code.expires
      BY <2>t, <3>1 DEF BudgetInv, RequestInv
    <3>3. CASE KeepPolling
      <4>1. CASE reply.says = "pending" /\ Loop(client.interval, client.remaining)
        <5>1. client.interval >= code.interval
          BY <2>t, <3>1, <4>1 DEF SleepInv
        <5>2. QED
          BY <2>t, <3>1, <3>2, <4>1, <5>1, LoopHolds
      <4>2. CASE /\ reply.says = "slow_down"
                 /\ Loop(client.interval + SlowDownBy, client.remaining)
        <5>1. /\ client.interval + SlowDownBy >= code.interval
              /\ client.interval + SlowDownBy \in Nat \ {0}
              /\ client.interval + SlowDownBy >= client.interval
          BY <2>t, <3>1, <4>2 DEF SleepInv
        <5>2. QED
          BY <2>t, <3>1, <3>2, <4>2, <5>1, LoopHolds
      <4>3. QED
        BY <3>3, <4>1, <4>2 DEF KeepPolling
    <3>4. CASE reply.says \in {"approved", "denied", "expired"}
                 /\ Goes(IF reply.says = "approved" THEN "identifying" ELSE reply.says)
      <4>1. /\ client' \in Clients
            /\ client'.pc \in {"identifying", "denied", "expired"}
            /\ client'.pc = "expired" <=> reply.says = "expired"
            /\ client'.pc = "identifying" <=> reply.says = "approved"
            /\ client'.at = clock /\ client'.interval = client.interval
        <5>1. client' = [pc |-> IF reply.says = "approved" THEN "identifying" ELSE reply.says,
                         at |-> clock, interval |-> client.interval,
                         remaining |-> client.remaining]
          BY <3>4 DEF Goes, ClientBecomes
        <5>2. reply.says \in {"approved", "denied", "expired"}
          BY <3>4
        <5>3. client' \in Clients
          <6>1. (IF reply.says = "approved" THEN "identifying" ELSE reply.says)
                  \in Ended \cup Requesting \cup {"start", "sleeping"}
            BY <5>2 DEF Ended, Requesting
          <6>2. clock \in Int
            BY <2>t
          <6>3. QED
            BY ONLY <2>t, <5>1, <6>1, <6>2, ClientType
        <5>4. QED
          BY <5>1, <5>2, <5>3
      <4>2. DeviceTypeOK'
        BY <3>1, <4>1, NothingType DEF DeviceTypeOK
      <4>3. RequestInv' /\ SleepInv' /\ BudgetInv'
        BY <2>t, <3>1, <4>1 DEF RequestInv, SleepInv, BudgetInv, Requesting
      <4>4. ApprovalInv'
        BY <2>t, <3>1, <4>1 DEF ApprovalInv, InReach
      <4>5. QED
        BY <4>2, <4>3, <4>4
    <3>5. QED
      BY <2>4, <3>3, <3>4 DEF ReceiveAnswer
  <2>5. CASE RequestFails
    <3>1. /\ client' \in Clients /\ client'.pc = "failed"
          /\ client'.interval = client.interval /\ client.pc \in Requesting
          /\ reply' = Says("nothing") /\ UNCHANGED <<clock, code, approvedAt>>
      <4>1. client' = [pc |-> "failed", at |-> clock, interval |-> client.interval,
                       remaining |-> client.remaining]
        BY <2>5 DEF RequestFails, Goes, ClientBecomes
      <4>2. QED
        BY <2>t, <2>5, <4>1 DEF RequestFails, Clients, Ended
    <3>2. DeviceTypeOK'
      BY <3>1, NothingType DEF DeviceTypeOK
    <3>3. RequestInv' /\ SleepInv' /\ BudgetInv'
      BY <3>1 DEF RequestInv, SleepInv, BudgetInv, Requesting
    <3>4. ApprovalInv'
      BY <3>1 DEF ApprovalInv, InReach, Requesting
    <3>5. QED
      BY <3>2, <3>3, <3>4
  <2>6. CASE Identified
    <3>1. /\ client' \in Clients /\ client'.pc = "signed in"
          /\ client'.interval = client.interval /\ client.pc = "identifying"
          /\ UNCHANGED <<clock, code, reply, approvedAt>>
      <4>1. client' = [pc |-> "signed in", at |-> clock, interval |-> client.interval,
                       remaining |-> client.remaining]
        BY <2>6 DEF Identified, Goes, ClientBecomes
      <4>2. client' \in Clients
        <5>1. "signed in" \in Ended \cup Requesting \cup {"start", "sleeping"} /\ clock \in Int
          BY <2>t DEF Ended
        <5>2. QED
          BY ONLY <2>t, <4>1, <5>1, ClientType
      <4>3. QED
        BY <2>6, <4>1, <4>2 DEF Identified
    <3>2. DeviceTypeOK'
      BY <3>1 DEF DeviceTypeOK
    <3>3. RequestInv' /\ SleepInv' /\ BudgetInv'
      BY <3>1 DEF RequestInv, SleepInv, BudgetInv, Requesting
    <3>4. ApprovalInv'
      BY <3>1 DEF ApprovalInv, InReach
    <3>5. QED
      BY <3>2, <3>3, <3>4
  <2>7. CASE Tick
    <3>1. clock' = clock + 1 /\ UNCHANGED <<client, code, reply, approvedAt>>
      BY <2>7 DEF Tick
    <3>t. DeviceTypeOK'
      BY <2>t, <3>1 DEF DeviceTypeOK
    <3>a. ApprovalInv'
      BY <3>1 DEF ApprovalInv, InReach
    <3>2. RequestInv' /\ SleepInv' /\ BudgetInv'
      BY <2>t, <2>7 DEF Tick, Due, RequestInv, SleepInv, BudgetInv
    <3>3. QED
      BY <3>t, <3>a, <3>2
  <2>8. ASSUME NEW grant \in {"approved", "denied"}, Decide(grant) PROVE DeviceInv'
    <3>1. /\ clock < code.expires /\ code.grant = "pending"
          /\ code' = [code EXCEPT !.grant = grant]
          /\ approvedAt' = IF grant = "approved" THEN clock ELSE approvedAt
          /\ UNCHANGED <<clock, client, reply>>
      BY <2>8 DEF Decide
    <3>2. /\ code' \in Codes /\ code'.grant = grant
          /\ code'.last = code.last /\ code'.expires = code.expires
          /\ code'.interval = code.interval
      BY <2>t, <3>1 DEF DeviceTypeOK, Codes
    <3>t. DeviceTypeOK'
      BY <2>t, <3>1, <3>2 DEF DeviceTypeOK
    <3>3. RequestInv' /\ SleepInv' /\ BudgetInv'
      BY <3>1, <3>2 DEF RequestInv, SleepInv, BudgetInv
    <3>4. ApprovalInv'
      BY <2>t, <3>1, <3>2 DEF ApprovalInv, InReach, BudgetInv
    <3>5. QED
      BY <3>t, <3>3, <3>4
  <2>a. ASSUME NEW lifetime \in Lifetimes, NEW i \in Intervals \cup {NoInterval},
               Issue(lifetime, i)
        PROVE  DeviceInv'
    <3>1. lifetime \in Int /\ Asked(i) \in Int /\ i \in Int \cup {NoInterval}
      BY AskedType, DeviceAssumption
    <3>2. /\ client.pc = "asking" /\ reply.says = "nothing"
          /\ reply' = [says |-> "code", lifetime |-> lifetime, interval |-> i]
          /\ code' = [grant |-> "pending", expires |-> clock + lifetime,
                      interval |-> Asked(i), last |-> clock]
          /\ UNCHANGED <<clock, client, approvedAt>>
      BY <2>a DEF Issue, Serving
    <3>3. DeviceTypeOK'
      <4>1. code' \in Codes /\ reply' \in Replies
        BY <2>t, <3>1, <3>2 DEF Codes, Replies
      <4>2. QED
        BY <3>2, <4>1 DEF DeviceTypeOK
    <3>4. RequestInv' /\ BudgetInv'
      BY <2>t, <3>1, <3>2 DEF RequestInv, BudgetInv, Requesting
    <3>5. SleepInv' /\ ApprovalInv'
      BY <3>2 DEF SleepInv, ApprovalInv
    <3>6. QED
      BY <3>3, <3>4, <3>5
  <2>b. ASSUME NEW a \in {"denied", "approved", "pending", "slow_down", "expired"}, Answer(a)
        PROVE  DeviceInv'
    <3>1. /\ client.pc = "polling" /\ reply.says = "nothing" /\ a \in Answers
          /\ reply' = Says(a)
          /\ code' = [grant |-> IF a = "approved" THEN "spent" ELSE code.grant,
                      expires |-> code.expires,
                      interval |-> code.interval + (IF a = "slow_down" THEN SlowDownBy ELSE 0),
                      last |-> clock]
          /\ UNCHANGED <<clock, client, approvedAt>>
      BY <2>b DEF Answer, Serving
    <3>2. /\ a = "approved" => code.grant = "approved"
          /\ a # "approved" /\ code.grant = "approved" => clock >= code.expires
          /\ a = "expired" => clock >= code.expires
          /\ code.grant # "spent" /\ code.grant # "none"
      <4>1. code.grant \in {"pending", "approved", "denied", "spent", "none"}
        BY DEF DeviceTypeOK, Codes
      <4>2. code.grant # "spent" /\ code.grant # "none"
        BY <3>1 DEF ApprovalInv
      <4>3. QED
        BY <2>t, <3>1, <4>1, <4>2 DEF Answers
    <3>3. DeviceTypeOK'
      <4>1. code' \in Codes
        BY <2>t, <3>1 DEF DeviceTypeOK, Codes
      <4>2. reply' \in Replies
        BY <3>1, NothingType
      <4>3. QED
        BY <3>1, <4>1, <4>2 DEF DeviceTypeOK
    <3>4. /\ code'.last = clock /\ code'.expires = code.expires
          /\ code'.interval = code.interval + (IF a = "slow_down" THEN SlowDownBy ELSE 0)
          /\ code'.grant = IF a = "approved" THEN "spent" ELSE code.grant
          /\ reply'.says = a
          /\ clock' = clock /\ client' = client /\ approvedAt' = approvedAt
      BY <3>1 DEF Says
    <3>5. client.at <= clock /\ clock <= client.at + Latency
      BY <3>1 DEF RequestInv, Requesting
    <3>6. RequestInv'
      BY <2>t, <3>1, <3>4, <3>5 DEF RequestInv
    <3>7. SleepInv'
      BY <2>t, <3>1, <3>4 DEF SleepInv
    <3>8. BudgetInv'
      BY <2>t, <3>1, <3>2, <3>4 DEF BudgetInv
    <3>9. ApprovalInv'
      <4>1. code.grant = "approved" /\ approvedAt \in Nat /\ InReach /\ a # "approved"
              => InReach'
        <5>1. client.at <= code.last + Latency + client.interval + Lateness
          BY <3>1 DEF SleepInv
        <5>2. QED
          BY <2>t, <3>2, <3>4, <3>5, <5>1 DEF InReach
      <4>2. QED
        BY <3>1, <3>2, <3>4, <4>1 DEF ApprovalInv
    <3>10. QED
      BY <3>3, <3>6, <3>7, <3>8, <3>9
  <2>9. CASE UNCHANGED deviceVars
    <3>1. UNCHANGED <<clock, client, code, reply, approvedAt>>
      BY <2>9 DEF deviceVars
    <3>2. DeviceTypeOK' /\ RequestInv' /\ SleepInv'
      BY <3>1 DEF DeviceTypeOK, RequestInv, SleepInv
    <3>3. BudgetInv' /\ ApprovalInv'
      BY <3>1 DEF BudgetInv, ApprovalInv, InReach
    <3>4. QED
      BY <3>2, <3>3
  <2>10. QED
    BY <2>1, <2>2, <2>3, <2>4, <2>5, <2>6, <2>7, <2>8, <2>9, <2>a, <2>b
    DEF DeviceNext, Command, Server
<1>3. QED
  BY <1>1, <1>2, PTL DEF DeviceSpec

\* The client gives a code up only after its end, and misses an approval only when
\* it came within one round of that end.
THEOREM NotGivenUpEarly == DeviceSpec => []ExpiredMeansExpired
<1>1. DeviceInv => ExpiredMeansExpired
  <2> SUFFICES ASSUME DeviceInv, client.pc = "expired"
               PROVE  /\ clock >= code.expires
                      /\ approvedAt # Never =>
                           approvedAt + client.interval + 2 * Latency + Lateness >= code.expires
    BY DEF ExpiredMeansExpired
  <2> USE DEF DeviceInv
  <2>1. /\ clock \in Nat /\ code.last \in Nat /\ code.expires \in Int
        /\ client.interval \in Nat /\ Latency \in Nat /\ Lateness \in Nat
    BY DeviceAssumption DEF DeviceTypeOK, Clients, Codes
  <2>2. code.last <= clock /\ code.last >= code.expires
    BY DEF BudgetInv
  <2>3. approvedAt # Never => code.grant = "approved"
    BY DEF ApprovalInv
  <2>4. QED
    BY <2>1, <2>2, <2>3 DEF ApprovalInv, InReach
<1>2. QED
  BY <1>1, DeviceInductive, PTL

\* Polls are never closer than the server has asked for.
THEOREM Patience == DeviceSpec => PollsArePatient
<1>1. DeviceInv /\ [DeviceNext]_deviceVars =>
        [client.pc = "sleeping" /\ client'.pc = "polling"
           => clock - code.last >= code.interval]_deviceVars
  <2> SUFFICES ASSUME DeviceInv, [DeviceNext]_deviceVars, client.pc = "sleeping", client'.pc = "polling"
               PROVE  clock - code.last >= code.interval
    OBVIOUS
  <2> USE DEF DeviceInv
  <2>1. clock >= client.at
    BY DEF DeviceNext, Command, Server, Issue, Answer, RequestCode, ReceiveCode, Poll,
           ReceiveAnswer, RequestFails, Identified, Tick, Decide, Goes, ClientBecomes, Loop, KeepPolling, deviceVars, Requesting
  <2>2. /\ clock \in Nat /\ code.last \in Nat /\ code.interval \in Int
        /\ client.interval \in Nat /\ client.at \in Int
    BY DEF DeviceTypeOK, Clients, Codes
  <2>3. QED
    BY <2>1, <2>2 DEF SleepInv
<1>2. QED
  BY <1>1, DeviceInductive, PTL DEF DeviceSpec, PollsArePatient
=============================================================================
