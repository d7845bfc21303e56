--------------------------- MODULE PairingProofs ----------------------------
(***************************************************************************)
(* Pairing for any number of accounts, projects, codes, runs, failures and *)
(* saves: one account per project, one key of a granted account, a page    *)
(* that tells the truth, and the promise of Enrollment.                    *)
(***************************************************************************)
EXTENDS Pairing, TLAPS

----------------------------------------------------------------------------
(* The inductive invariant.                                                *)

Login        == {"none", "await", "load", "device", "poll", "list", "wait", "read"}
Keyless      == {"device", "poll", "list", "wait", "read", "reuse", "create", "email",
                 "grant", "ready", "key", "keyed"}
Granting     == {"grant", "ready", "key", "keyed", "written"}
Provisioning == {"reuse", "create", "email"} \cup Granting
Granted      == {"ready", "key", "keyed", "written"}
Pcs          == Login \cup Provisioning \cup {"end", "over"}
Phases       == {"Idle", "Starting", "Code", "Approved", "Choose", "Working", "Done", "Failed"}

ProjectOrNone == Projects \cup {None}
AccountOrNone == Accounts \cup {None}
PendingType   == [acct : AccountOrNone, proj : ProjectOrNone, refused : BOOLEAN]
SessionType   == [left : Life, tok : Life, there : BOOLEAN]
AcctType      == [st : {"unused", "new", "ready", "deleted"}, proj : ProjectOrNone]
StatusType    == [phase : Phases, code : Nat \cup {None}, project : ProjectOrNone,
                  error : {"none", "expired", "denied", "forbidden", "failed"}]
CacheType     == [there : BOOLEAN, value : ProjectOrNone]
OldType       == [run : Nat, pc : {"await", "load", "device", "poll", "end"}]
TaskType      == [pc : Pcs, run : Nat, prev : Nat, code : Nat \cup {None}, tok : Life,
                  reused : BOOLEAN, left : Life, seen : ProjectOrNone, proj : ProjectOrNone,
                  acct : AccountOrNone, refused : BOOLEAN, result : Errors \cup {"none", "Ok"}]

\* TypeOK, with its types named.
Typed ==
    /\ proc \in {"down", "setup", "daemon"} /\ mode \in {"page", "log"}
    /\ opt \in ProjectOrNone /\ initial \in ProjectOrNone
    /\ keyFile \in AccountOrNone /\ pendingFile \in PendingType
    /\ sessionFile \in SessionType
    /\ acct \in [Accounts -> AcctType] /\ bound \subseteq Accounts
    /\ issued \in Nat /\ run \in Nat
    /\ status \in StatusType /\ page \in Listed \cup {None} /\ cache \in CacheType
    /\ task \in TaskType /\ olds \subseteq OldType
    /\ picks \subseteq ProjectOrNone
    /\ told \subseteq Accounts /\ lost \subseteq Accounts
    /\ faults \in Nat /\ saves \in Nat

\* Outside setup nothing is in memory.
Resting ==
    proc # "setup" =>
        /\ task = NoTask /\ olds = {} /\ picks = {}
        /\ run = 0 /\ status = Blank /\ page = None
        /\ cache = [there |-> FALSE, value |-> None]

\* Where a run is says what it has chosen and made, and what is on disk by then.
TaskFits ==
    /\ task.pc \in Login \cup {"over"} => task.proj = None
    /\ task.pc \in Provisioning => task.proj \in Projects
    /\ task.pc \in Granting \cup {"email"} =>
          /\ task.acct \in Accounts
          /\ acct[task.acct].st # "unused" /\ acct[task.acct].proj = task.proj
    /\ task.pc = "reuse" => pendingFile.acct # None /\ pendingFile.proj = task.proj
    /\ task.pc = "create" /\ pendingFile.acct # None /\ pendingFile.proj = task.proj
          => acct[pendingFile.acct].st = "deleted"
    /\ task.pc \in Granting => pendingFile.acct = task.acct /\ pendingFile.proj = task.proj
    /\ task.pc \in Granting /\ task.refused => task.acct \in told
    /\ task.pc \in Granted => task.acct \in bound \cup told
    /\ task.pc \in Keyless => keyFile = None
    /\ task.pc = "written" => keyFile = task.acct
    /\ task.pc = "end" => task.result # "none"
    /\ task.pc = "end" /\ task.result = "Ok"
          => keyFile # None /\ acct[keyFile].proj = task.proj

\* What the record and the key name was made, and settled before it was named.
FilesFit ==
    /\ pendingFile.acct = None => pendingFile = NoPending
    /\ pendingFile.acct # None =>
          /\ acct[pendingFile.acct].st \in {"ready", "deleted"}
          /\ acct[pendingFile.acct].proj = pendingFile.proj
          /\ pendingFile.proj # None
          /\ pendingFile.refused => pendingFile.acct \in told
    /\ keyFile # None => acct[keyFile].st # "unused"

\* What the page may show while the run is at each point.
Shown(pc) ==
    {ph \in Phases :
        \/ pc = "none" /\ ph = "Idle"
        \/ pc \in {"await", "load"} /\ ph = "Starting"
        \/ pc = "device" /\ ph \in {"Starting", "Code", "Approved", "Working"}
        \/ pc = "poll" /\ ph = "Code"
        \/ pc = "list" /\ ph = "Approved"
        \/ pc \in {"wait", "read"} /\ ph \in {"Choose", "Working"}
        \/ pc \in Provisioning /\ ph = "Working"
        \/ pc = "end" /\ ph \in {"Starting", "Code", "Approved", "Choose", "Working"}
        \/ pc = "over" /\ ph \in {"Done", "Failed"}}

PageFits ==
    OnPage =>
        /\ status.phase \in Shown(task.pc)
        /\ task.pc \notin {"none", "over"} => task.run = run
        /\ \A o \in olds : o.run < run
        /\ status.phase = "Code" => status.code # None
        /\ task.pc = "poll" => task.code = status.code

\* What the project source can give, but for the suggestion, was picked.
Picked ==
    OnPage =>
        /\ opt = initial \/ opt \in picks
        /\ page # None => page \in picks
        /\ cache.there => cache.value \in {initial, None} \cup picks

\* A run that is over has dropped the login.
SessionDropped ==
    /\ proc = "daemon" => ~sessionFile.there
    /\ proc = "setup" /\ task.pc = "over" => ~sessionFile.there

Inv == /\ Typed /\ Resting /\ TaskFits /\ FilesFit /\ PageFits /\ Picked /\ SessionDropped
       /\ OneAccount /\ KeyBacked /\ PickedByPerson /\ DoneAgrees

----------------------------------------------------------------------------
(* The types, and what the operators on times, tasks and pages return.     *)

\* TypeOK in terms of the types above.
LEMMA Types == TypeOK <=> Typed
  <1>1. Pcs = {"none", "await", "load", "device", "poll", "list", "wait", "read",
               "reuse", "create", "email", "grant", "ready", "key", "keyed",
               "written", "end", "over"}
    BY DEF Pcs, Login, Provisioning, Granting
  <1>2. TaskType = [pc : {"none", "await", "load", "device", "poll", "list", "wait", "read",
                       "reuse", "create", "email", "grant", "ready", "key", "keyed",
                       "written", "end", "over"},
                 run : Nat, prev : Nat, code : Nat \cup {None}, tok : Life,
                 reused : BOOLEAN, left : Life, seen : Projects \cup {None},
                 proj : Projects \cup {None}, acct : Accounts \cup {None},
                 refused : BOOLEAN, result : Errors \cup {"none", "Ok"}]
    BY <1>1, Zenon DEF TaskType, ProjectOrNone, AccountOrNone
  <1> QED BY <1>2, Zenon DEF TypeOK, ProjectOrNone, AccountOrNone, PendingType, SessionType,
             AcctType, StatusType, CacheType, OldType, Phases, Typed

\* saturating_sub and min keep a lifetime a lifetime.
LEMMA MinusLife == \A x \in Life, n \in Nat : Minus(x, n) \in Life
  BY ConstAssumption DEF Life, Minus

\* The shorter of two lifetimes is one.
LEMMA LeastLife == \A x, y \in Life : Least(x, y) \in Life
  BY ConstAssumption DEF Life, Least

\* No pairing runs.
LEMMA NotRun == NoTask \in TaskType
  BY ConstAssumption DEF NoTask, TaskType, Pcs, Login, ProjectOrNone, AccountOrNone, Life, Errors

\* No login is kept.
LEMMA NoLogin == NoSession \in SessionType
  BY ConstAssumption DEF NoSession, SessionType, Life

\* A pairing that ends is left with how it ended.
LEMMA EndWithType ==
    ASSUME NEW t \in TaskType, NEW e \in Errors \cup {"Ok"}
    PROVE  /\ EndWith(t, e) \in TaskType
           /\ EndWith(t, e).pc = "end" /\ EndWith(t, e).run = t.run
           /\ EndWith(t, e).proj = t.proj /\ EndWith(t, e).result = e
  BY NotRun DEF EndWith, NoTask, TaskType, Pcs

\* Every error is shown as one of the page's four endings.
LEMMA ErrorViewType ==
    \A e \in Errors : ErrorView(e) \in {"expired", "denied", "forbidden", "failed"}
  <1>1. ErrorView("Denied") = "denied" BY DEF ErrorView
  <1>2. ErrorView("BindingForbidden") = "forbidden" BY DEF ErrorView
  <1>3. ErrorView("TimedOut") = "expired" BY DEF ErrorView
  <1>4. ErrorView("ProjectNotChosen") = "expired" BY DEF ErrorView
  <1>5. ErrorView("KeyExists") = "failed" BY DEF ErrorView
  <1>6. ErrorView("Project") = "failed" BY DEF ErrorView
  <1>7. ErrorView("Failed") = "failed" BY DEF ErrorView
  <1> QED BY <1>1, <1>2, <1>3, <1>4, <1>5, <1>6, <1>7 DEF Errors

\* Apply records `s` or leaves the page as it is; the run of a page is current.
LEMMA ApplyType ==
    ASSUME status \in StatusType, NEW s \in StatusType, NEW r, Apply(r, s)
    PROVE  status' \in StatusType
  BY DEF Apply

----------------------------------------------------------------------------
(* What most steps leave alone.                                            *)

\* Nothing happens to the accounts, the record and the key; an account that was
\* not on record yet is given up.
LEMMA Kept ==
    ASSUME Inv, UNCHANGED <<keyFile, pendingFile, acct>>, lost \subseteq lost',
           Unrecorded \subseteq Unrecorded' \cup lost', bound \subseteq bound',
           told \subseteq told'
    PROVE  FilesFit' /\ OneAccount' /\ KeyBacked'
  <1>1. FilesFit' BY DEF Inv, FilesFit
  <1>2. OneAccount'
    <2>1. Live' = Live BY DEF Live
    <2>2. OneAccount BY DEF Inv
    <2> QED BY <2>1, <2>2 DEF OneAccount
  <1>3. KeyBacked' BY DEF Inv, KeyBacked
  <1> QED BY <1>1, <1>2, <1>3

\* A step of the run that goes on in `setup`, on the files and accounts as they are.
LEMMA RunMoves ==
    ASSUME Inv, proc = "setup",
           UNCHANGED <<env, keyFile, pendingFile, acct, run, page, olds, picks, told, saves>>,
           bound \subseteq bound', bound' \subseteq Accounts,
           task' \in TaskType, status' \in StatusType, sessionFile' \in SessionType,
           cache' \in CacheType, issued' \in Nat, faults' \in Nat,
           lost' \subseteq Accounts, lost \subseteq lost', Unrecorded \subseteq lost',
           task'.pc \notin {"email", "over"},
           TaskFits', PageFits', Picked', PickedByPerson'
    PROVE  Inv'
  <1>1. Typed' BY DEF Inv, Typed, env
  <1>2. Resting' BY DEF Resting, env
  <1>3. FilesFit' /\ OneAccount' /\ KeyBacked' BY Kept
  <1>4. SessionDropped' BY DEF SessionDropped, env
  <1>5. DoneAgrees'
    <2>1. Shown(task.pc)' \cap {"Done"} = {} BY DEF Shown
    <2> QED BY <2>1 DEF DoneAgrees, PageFits
  <1> QED BY <1>1, <1>2, <1>3, <1>4, <1>5 DEF Inv

----------------------------------------------------------------------------
(* The steps that end a run with an error.                                 *)

\* Where a run is not over it is the current one, and what it reports is shown.
LEMMA Current ==
    ASSUME Inv, OnPage, task.pc \notin {"none", "over"}
    PROVE  task.run = run /\ status.phase \in Shown(task.pc)
  BY DEF Inv, PageFits

\* A fault counts.
LEMMA FaultNat == Inv /\ Fault => faults' \in Nat
  BY DEF Inv, Typed, Fault

\* An account made and not yet recorded is an account.
LEMMA UnrecordedAccounts == Inv => Unrecorded \subseteq Accounts
  BY DEF Inv, TaskFits, Unrecorded

\* A run that is left with an error keeps what it chose, and gives up what no
\* file names.
LEMMA FailsInv ==
    ASSUME Inv, proc = "setup", task.pc \notin {"none", "over"}, NEW e \in Errors,
           Fails(e), faults' \in Nat
    PROVE  Inv'
  <1>1. /\ task' \in TaskType /\ task'.pc = "end" /\ task'.run = task.run
        /\ task'.proj = task.proj /\ task'.result = e
    BY EndWithType DEF Fails, Go, Inv, Typed
  <1>2. lost' \subseteq Accounts /\ lost \subseteq lost' /\ Unrecorded \subseteq lost'
    BY UnrecordedAccounts DEF Fails, Inv, Typed
  <1>3. TaskFits'
    BY <1>1 DEF Errors, TaskFits, Login, Provisioning, Granting, Granted, Keyless
  <1>4. PageFits'
    <2>1. Shown(task.pc) \subseteq Shown(task.pc)' BY <1>1 DEF Shown
    <2> QED BY <1>1, <2>1, Current DEF Fails, ctl, env, PageFits, OnPage, Inv
  <1>5. Picked' /\ PickedByPerson'
    BY <1>1 DEF Fails, ctl, env, Inv, Picked, PickedByPerson, OnPage
  <1> QED
    BY <1>1, <1>2, <1>3, <1>4, <1>5, RunMoves
    DEF Fails, Inv, Typed, env, files, cloud, ctl

\* An attempt that fails changes only how it ended and what the page says.
LEMMA FailingInv ==
    ASSUME Inv, NoCode \/ Denied \/ NoProjects \/ NotChosen \/ NamesTaken \/ NoEmail
                \/ KeyRefused \/ CallFails
    PROVE  Inv'
  <1>1. faults \in Nat BY DEF Inv, Typed
  <1>2. /\ proc = "setup" /\ task.pc \notin {"none", "over"} /\ faults' \in Nat
        /\ \E e \in Errors : Fails(e)
    BY <1>1, FaultNat
    DEF NoCode, Denied, NoProjects, NotChosen, NamesTaken, NoEmail, KeyRefused, CallFails, At,
        Errors
  <1> QED BY <1>2, FailsInv

\* A saved login that is refused is dropped, and the run asks for a new approval.
LEMMA RefusedInv == ASSUME Inv, Refused PROVE Inv'
  <1>1. CASE ~task.reused
    BY <1>1, FailsInv DEF Refused, Inv, Typed, Errors
  <1>2. CASE task.reused
    <2>1. task' \in TaskType /\ task'.pc = "device" /\ task'.run = task.run /\ task'.proj = None
      <3>1. task' = [NoTask EXCEPT !.pc = "device", !.run = task.run] BY <1>2 DEF Refused, Go
      <3> QED BY <3>1, NotRun DEF Inv, Typed, NoTask, TaskType, Pcs, Login
    <2>2. /\ lost' \subseteq Accounts /\ lost \subseteq lost' /\ Unrecorded \subseteq lost'
          /\ sessionFile' \in SessionType
      <3>1. lost' = lost \cup Unrecorded /\ sessionFile' = NoSession BY <1>2 DEF Refused
      <3> QED BY <3>1, UnrecordedAccounts, NoLogin DEF Inv, Typed
    <2>3. keyFile = None BY DEF Refused, Inv, TaskFits, Keyless
    <2>4. TaskFits'
      BY <1>2, <2>1, <2>3
      DEF Refused, TaskFits, Login, Provisioning, Granting, Granted, Keyless
    <2>5. PageFits'
      <3>1. OnPage => status.phase \in Shown(task.pc) /\ task.run = run
        BY Current DEF Refused
      <3>2. OnPage => status.phase \in {"Approved", "Working"}
        BY <3>1 DEF Shown, Refused, Provisioning, Granting
      <3> QED BY <1>2, <2>1, <3>1, <3>2
              DEF Refused, ctl, env, PageFits, OnPage, Inv, Shown, Phases
    <2>6. Picked' /\ PickedByPerson'
      BY <1>2, <2>1 DEF Refused, ctl, env, Inv, Picked, PickedByPerson, OnPage
    <2> QED
      BY <1>2, <2>1, <2>2, <2>4, <2>5, <2>6, RunMoves
      DEF Refused, Inv, Typed, env, cloud, ctl
  <1> QED BY <1>1, <1>2

----------------------------------------------------------------------------
(* The login, and the wait for a project.                                  *)

\* A run that has chosen no project yet goes on without one.
LEMMA LoginMoves ==
    ASSUME Inv, proc = "setup", task.pc \in Login \ {"none"},
           UNCHANGED <<env, keyFile, pendingFile, cloud, run, page, olds, hist, saves>>,
           task' \in TaskType, task'.run = task.run, task'.proj = None,
           task'.pc \in Login \ {"none", "await"}, keyFile = None \/ task'.pc = "load",
           status' \in StatusType, sessionFile' \in SessionType, cache' \in CacheType,
           issued' \in Nat, faults' \in Nat, Picked',
           OnPage => /\ status'.phase \in Shown(task'.pc)
                     /\ status'.phase = "Code" => status'.code # None
                     /\ task'.pc = "poll" => task'.code = status'.code
    PROVE  Inv'
  <1>1. Unrecorded = {} BY DEF Unrecorded, Login
  <1>2. TaskFits'
    BY DEF TaskFits, Login, Provisioning, Granting, Granted, Keyless
  <1>3. PageFits'
    <2>1. OnPage => task.run = run BY Current DEF Login
    <2>2. (Shown(task.pc))' = Shown(task'.pc) BY DEF Shown
    <2> QED BY <2>1, <2>2 DEF PageFits, OnPage, env, Inv
  <1>4. PickedByPerson' BY DEF PickedByPerson
  <1>5. task'.pc \notin {"email", "over"} BY DEF Login
  <1> QED BY <1>1, <1>2, <1>3, <1>4, <1>5, RunMoves DEF Inv, Typed, cloud, hist

\* The project source is as it was.
LEMMA SourceKept ==
    ASSUME Inv, UNCHANGED <<env, page, cache, picks>>
    PROVE  Picked'
  BY DEF Inv, Picked, OnPage, env

\* An attempt begins with what the files say.
LEMMA BeginInv == ASSUME Inv, Begin PROVE Inv'
  <1>1. /\ task' \in TaskType /\ task'.pc = "load" /\ task'.run = task.run
        /\ task'.proj = task.proj
    BY DEF Begin, Go, Inv, Typed, TaskType, Pcs, Login
  <1>2. task.pc = "await" /\ proc = "setup" /\ task.proj = None
    BY DEF Begin, At, Inv, TaskFits, Login
  <1>3. OnPage => status.phase \in Shown("load") /\ status.phase = "Starting"
    BY <1>2, Current DEF Shown, Phases, Provisioning, Granting
  <1>4. Picked' BY SourceKept DEF Begin, ctl, hist
  <1> QED BY <1>1, <1>2, <1>3, <1>4, LoginMoves
          DEF Begin, Login, files, ctl, env, Inv, Typed

\* A new device code is put on the page of this attempt.
LEMMA GetCodeInv == ASSUME Inv, GetCode PROVE Inv'
  <1>1. /\ task.pc = "device" /\ proc = "setup" /\ task.proj = None /\ keyFile = None
        /\ issued + 1 \in Nat
    BY DEF GetCode, At, Inv, Typed, TaskFits, Login, Keyless
  <1>2. /\ task' \in TaskType /\ task'.pc = "poll" /\ task'.run = task.run
        /\ task'.proj = task.proj /\ task'.code = issued + 1
    BY <1>1 DEF GetCode, Go, Inv, Typed, TaskType, Pcs, Login
  <1>3. /\ status' \in StatusType
        /\ OnPage => status'.phase = "Code" /\ status'.code = issued + 1
    BY <1>1, Current DEF GetCode, Apply, Inv, Typed, StatusType, Phases, OnPage
  <1>4. "Code" \in Shown("poll") BY DEF Shown, Phases
  <1>5. Picked' BY SourceKept DEF GetCode, hist
  <1>6. issued + 1 # None BY <1>1, ConstAssumption
  <1> QED BY <1>1, <1>2, <1>3, <1>4, <1>5, <1>6, LoginMoves
          DEF GetCode, Login, files, env, Inv, Typed

\* The login the person approved is kept for this attempt.
LEMMA ApprovedInv == ASSUME Inv, Approved PROVE Inv'
  <1>1. task.pc = "poll" /\ proc = "setup" /\ task.proj = None /\ keyFile = None
    BY DEF Approved, At, Inv, TaskFits, Login, Keyless
  <1>2. task' \in TaskType /\ task'.pc = "list" /\ task'.run = task.run /\ task'.proj = task.proj
    <2>1. PICK life \in TokenLives :
             task' = [task EXCEPT !.pc = "list", !.tok = life, !.code = None]
      BY DEF Approved, Go
    <2>2. life \in Life BY ConstAssumption
    <2> QED BY <2>1, <2>2 DEF Inv, Typed, TaskType, Pcs, Login
  <1>3. status' \in StatusType /\ (OnPage => status'.phase = "Approved")
    BY <1>1, Current DEF Approved, Apply, Inv, Typed, StatusType, Phases, OnPage
  <1>4. "Approved" \in Shown("list") BY DEF Shown, Phases
  <1>5. Picked' BY SourceKept DEF Approved, hist
  <1> QED BY <1>1, <1>2, <1>3, <1>4, <1>5, LoginMoves
          DEF Approved, Login, files, env, Inv, Typed

\* A code that ran out makes way for another.
LEMMA CodeExpiredInv == ASSUME Inv, CodeExpired PROVE Inv'
  <1>1. task.pc = "poll" /\ proc = "setup" /\ task.proj = None /\ keyFile = None
    BY DEF CodeExpired, At, Inv, TaskFits, Login, Keyless
  <1>2. /\ task' \in TaskType /\ task'.pc = "device" /\ task'.run = task.run
        /\ task'.proj = task.proj
    BY DEF CodeExpired, Go, Inv, Typed, TaskType, Pcs, Login
  <1>3. OnPage => status.phase = "Code" /\ status.phase \in Shown("device") /\ status.code # None
    BY <1>1, Current DEF Shown, Phases, Provisioning, Granting, Inv, PageFits
  <1>4. Picked' BY SourceKept DEF CodeExpired, ctl, hist
  <1> QED BY <1>1, <1>2, <1>3, <1>4, LoginMoves
          DEF CodeExpired, Login, files, env, ctl, Inv, Typed

\* A poll reads the add-on's options, unless the page has a choice.
LEMMA PollOptionsInv == ASSUME Inv, PollOptions PROVE Inv'
  <1>1. task.pc = "wait" /\ proc = "setup" /\ task.proj = None /\ keyFile = None
    BY DEF PollOptions, At, Inv, TaskFits, Login, Keyless
  <1>2. task' \in TaskType /\ task'.pc = "read" /\ task'.run = task.run /\ task'.proj = task.proj
    BY DEF PollOptions, Go, Inv, Typed, TaskType, Pcs, Login
  <1>3. OnPage => status.phase # "Code" /\ status.phase \in Shown("read")
    BY <1>1, Current DEF Shown, Phases, Provisioning, Granting
  <1>4. Picked' BY SourceKept DEF PollOptions, ctl, hist
  <1> QED BY <1>1, <1>2, <1>3, <1>4, LoginMoves
          DEF PollOptions, Login, files, env, ctl, Inv, Typed

----------------------------------------------------------------------------
(* The project.                                                            *)

\* The record is taken up exactly when it is of the chosen project.
LEMMA SelectedType ==
    ASSUME Inv, NEW t \in TaskType, NEW p \in Projects
    PROVE  /\ Selected(t, p) \in TaskType /\ Selected(t, p).run = t.run
           /\ Selected(t, p).proj = p /\ Selected(t, p).pc \in {"reuse", "create"}
           /\ Selected(t, p).pc = "reuse" => pendingFile.acct # None /\ pendingFile.proj = p
           /\ Selected(t, p).pc = "create" => pendingFile.acct = None \/ pendingFile.proj # p
  <1> DEFINE q == IF pendingFile # NoPending /\ pendingFile.proj = p THEN "reuse" ELSE "create"
  <1>1. q \in {"reuse", "create"} OBVIOUS
  <1>2. /\ q = "reuse" => pendingFile.acct # None /\ pendingFile.proj = p
        /\ q = "create" => pendingFile.acct = None \/ pendingFile.proj # p
    BY DEF Inv, FilesFit, NoPending
  <1>3. Selected(t, p) = [t EXCEPT !.proj = p, !.tok = 0, !.left = 0, !.seen = None, !.pc = q]
    BY DEF Selected
  <1> HIDE DEF q
  <1>4. Selected(t, p) \in TaskType
    <2>1. q \in Pcs /\ 0 \in Life /\ p \in ProjectOrNone /\ None \in ProjectOrNone
      BY <1>1 DEF Pcs, Provisioning, Life, ProjectOrNone
    <2> QED BY <1>3, <2>1 DEF TaskType
  <1>5. Selected(t, p).run = t.run /\ Selected(t, p).proj = p /\ Selected(t, p).pc = q
    BY <1>3 DEF TaskType
  <1> QED BY <1>1, <1>2, <1>4, <1>5

\* A project is taken: one of the person's own, and on the page one they picked.
LEMMA TakesProject ==
    ASSUME Inv, proc = "setup", task.pc \in Login \ {"none"}, keyFile = None,
           NEW t \in TaskType, t.run = task.run, NEW p \in Listed, mode = "page" => p \in picks,
           NEW s \in StatusType,
           Go(Selected(t, p)), Apply(t.run, [s EXCEPT !.phase = "Working", !.project = p]),
           UNCHANGED <<env, keyFile, pendingFile, cloud, issued, run, page, olds, hist, saves>>,
           sessionFile' \in SessionType, cache' \in CacheType, faults' \in Nat, Picked'
    PROVE  Inv'
  <1>1. p \in Projects BY DEF Projects
  <1>2. /\ task' \in TaskType /\ task'.run = task.run /\ task'.proj = p
        /\ task'.pc \in {"reuse", "create"}
        /\ task'.pc = "reuse" => pendingFile.acct # None /\ pendingFile.proj = p
        /\ task'.pc = "create" => pendingFile.acct = None \/ pendingFile.proj # p
    BY <1>1, SelectedType DEF Go
  <1>3. status' \in StatusType /\ (OnPage => status'.phase = "Working")
    BY <1>1, Current DEF Apply, Inv, Typed, StatusType, Phases, OnPage, ProjectOrNone, Login
  <1>4. TaskFits'
    BY <1>1, <1>2 DEF TaskFits, Login, Provisioning, Granting, Granted, Keyless
  <1>5. PageFits'
    <2>1. "Working" \in Shown(task.pc)' BY <1>2 DEF Shown, Phases, Provisioning
    <2>2. OnPage => task.run = run BY Current DEF Login
    <2> QED BY <1>2, <1>3, <2>1, <2>2 DEF PageFits, OnPage, env, Inv
  <1>6. PickedByPerson' BY <1>2 DEF PickedByPerson, OnPage, env, hist
  <1>7. Unrecorded = {} BY DEF Unrecorded, Login
  <1> QED BY <1>2, <1>3, <1>4, <1>5, <1>6, <1>7, RunMoves DEF Inv, Typed, cloud, hist

\* Only the person's own projects are chosen without asking.
LEMMA ChosenListed == \A w : ChooseProject(w) \subseteq Listed
  BY DEF ChooseProject

\* A saved session holds lifetimes.
LEMMA SaveSessionType ==
    ASSUME Inv, NEW t \in TaskType, SaveSession(t)
    PROVE  sessionFile' \in SessionType
  <1> DEFINE left == Least(SessionMax, Minus(t.tok, Margin))
  <1>1. t.tok \in Life BY DEF TaskType
  <1>2. left \in Life
    <2>1. Minus(t.tok, Margin) \in Life BY <1>1, MinusLife, ConstAssumption
    <2>2. SessionMax \in Life BY ConstAssumption DEF Life
    <2> QED BY <2>1, <2>2, LeastLife
  <1>3. \/ sessionFile' = sessionFile
        \/ sessionFile' = [left |-> left, tok |-> t.tok, there |-> TRUE]
    BY DEF SaveSession
  <1> HIDE DEF left
  <1>4. [left |-> left, tok |-> t.tok, there |-> TRUE] \in SessionType
    BY <1>1, <1>2 DEF SessionType
  <1> QED BY <1>3, <1>4 DEF Inv, Typed

\* How long a choice is waited for.
LEMMA WaitTimeLife == \A tok \in Life : WaitTime(tok) \in Life
  <1> SUFFICES ASSUME NEW tok \in Life PROVE WaitTime(tok) \in Life
    OBVIOUS
  <1>1. Minus(tok, Margin) \in Life BY MinusLife, ConstAssumption
  <1>2. WaitMax \in Life BY ConstAssumption DEF Life
  <1> QED BY <1>1, <1>2, LeastLife DEF WaitTime

\* provision up to its next await: it waits for a choice, or has one.
LEMMA ProvisionInv ==
    ASSUME Inv, proc = "setup", task.pc \in {"load", "list"}, keyFile = None,
           NEW t \in TaskType, t.run = task.run, t.proj = None,
           NEW s \in StatusType, OnPage => s.phase = "Approved",
           Provision(t, s),
           UNCHANGED <<env, keyFile, pendingFile, cloud, issued, run, page, cache, olds, hist,
                       faults, saves>>
    PROVE  Inv'
  <1> DEFINE chosen == IF mode = "page" THEN {} ELSE ChooseProject(initial)
  <1>1. chosen \subseteq Listed /\ (mode = "page" => chosen = {}) BY ChosenListed
  <1>2. Picked' BY SourceKept DEF hist
  <1>3. task.pc \in Login \ {"none"} BY DEF Login
  <1>4. CASE /\ Go([t EXCEPT !.pc = "wait", !.left = WaitTime(t.tok),
                             !.seen = IF mode = "page" THEN None ELSE initial])
             /\ SaveSession(t)
             /\ Apply(t.run, Choosing(s))
    <2> DEFINE seen == IF mode = "page" THEN None ELSE initial
               left == WaitTime(t.tok)
    <2>1. seen \in ProjectOrNone /\ left \in Life
      BY WaitTimeLife DEF Inv, Typed, ProjectOrNone, TaskType
    <2>2. task' = [t EXCEPT !.pc = "wait", !.left = left, !.seen = seen]
      BY <1>4 DEF Go
    <2> HIDE DEF seen, left
    <2>3. task' \in TaskType /\ task'.pc = "wait" /\ task'.run = task.run /\ task'.proj = None
      BY <2>1, <2>2 DEF TaskType, Pcs, Login
    <2>4. status' \in StatusType /\ (OnPage => status'.phase = "Choose")
      <3>1. Choosing(s) \in StatusType /\ (OnPage => Choosing(s).phase = "Choose")
        BY DEF Choosing, StatusType, Phases
      <3> QED BY <1>4, <3>1, Current DEF Apply, Inv, Typed, OnPage
    <2>5. "Choose" \in Shown("wait") BY DEF Shown, Phases
    <2>6. sessionFile' \in SessionType BY <1>4, SaveSessionType
    <2>7. task'.pc \in Login \ {"none", "await"} BY <2>3 DEF Login
    <2> QED BY <1>2, <1>3, <2>3, <2>4, <2>5, <2>6, <2>7, LoginMoves DEF Inv, Typed
  <1>5. CASE \E p \in chosen :
                /\ Go(Selected(t, p))
                /\ Apply(t.run, [s EXCEPT !.phase = "Working", !.project = p])
                /\ UNCHANGED sessionFile
    <2>1. PICK p \in chosen :
                /\ Go(Selected(t, p))
                /\ Apply(t.run, [s EXCEPT !.phase = "Working", !.project = p])
                /\ UNCHANGED sessionFile
      BY <1>5
    <2>2. p \in Listed /\ mode # "page" BY <1>1
    <2> QED BY <1>2, <1>3, <2>1, <2>2, TakesProject DEF Inv, Typed
  <1> QED BY <1>4, <1>5 DEF Provision

\* The projects are listed, and the one to pair with is settled or asked for.
LEMMA ListProjectsInv == ASSUME Inv, ListProjects PROVE Inv'
  <1>1. task.pc = "list" /\ proc = "setup" /\ task.proj = None /\ keyFile = None
    BY DEF ListProjects, At, Inv, TaskFits, Login, Keyless
  <1>2. OnPage => status.phase = "Approved"
    BY <1>1, Current DEF Shown, Provisioning, Granting
  <1> QED BY <1>1, <1>2, ProvisionInv DEF ListProjects, Inv, Typed

\* A login an earlier attempt left is taken up, unless a key is there already.
LEMMA LoadInv == ASSUME Inv, Load PROVE Inv'
  <1>1. task.pc = "load" /\ proc = "setup" /\ task.proj = None
    BY DEF Load, At, Inv, TaskFits, Login
  <1>2. CASE keyFile # None
    <2>1. Fails("KeyExists")
      BY <1>1, <1>2 DEF Load, Fails, Unrecorded, files, ctl, hist
    <2> QED BY <1>1, <2>1, FailsInv DEF Load, Inv, Typed, Errors
  <1>3. CASE keyFile = None /\ ~SessionReady
    <2>1. /\ sessionFile' = NoSession /\ task' = [task EXCEPT !.pc = "device"]
          /\ UNCHANGED status
      BY <1>3 DEF Load, Go
    <2>2. /\ task' \in TaskType /\ task'.pc = "device" /\ task'.run = task.run
          /\ task'.proj = task.proj
      BY <2>1 DEF Inv, Typed, TaskType, Pcs, Login
    <2>3. OnPage => status.phase = "Starting" /\ status.phase \in Shown("device")
      BY <1>1, Current DEF Shown, Phases, Provisioning, Granting
    <2>4. Picked' BY SourceKept DEF Load, hist
    <2> QED BY <1>1, <1>3, <2>1, <2>2, <2>3, <2>4, NoLogin, LoginMoves
            DEF Load, Login, Inv, Typed
  <1>4. CASE keyFile = None /\ SessionReady
    <2> DEFINE t == [task EXCEPT !.tok = sessionFile.tok, !.reused = TRUE]
               s == [status EXCEPT !.phase = "Approved", !.code = None]
    <2>1. t \in TaskType /\ t.run = task.run /\ t.proj = None
      BY <1>1 DEF Inv, Typed, TaskType, SessionType
    <2>2. s \in StatusType /\ s.phase = "Approved"
      BY DEF Inv, Typed, StatusType, Phases
    <2>3. Provision(t, s) BY <1>4 DEF Load
    <2> HIDE DEF t, s
    <2> QED BY <1>1, <1>4, <2>1, <2>2, <2>3, ProvisionInv DEF Load
  <1> QED BY <1>2, <1>3, <1>4

----------------------------------------------------------------------------
(* The project source.                                                     *)

\* A value is judged once; one of the person's own projects is taken.
LEMMA JudgeInv ==
    ASSUME Inv, proc = "setup", task.pc \in {"wait", "read"},
           NEW cur \in ProjectOrNone, mode = "page" /\ cur # None => cur \in picks,
           Judge(cur),
           UNCHANGED <<env, files, cloud, issued, run, page, olds, hist, saves>>,
           cache' \in CacheType, faults' \in Nat, Picked'
    PROVE  Inv'
  <1>1. keyFile = None /\ task.proj = None /\ task.pc \in Login \ {"none"}
    BY DEF Inv, TaskFits, Login, Keyless
  <1>2. CASE cur # task.seen /\ cur \in Listed
    <2>1. /\ Go(Selected(task, cur))
          /\ Apply(task.run, [status EXCEPT !.phase = "Working", !.project = cur])
      BY <1>2 DEF Judge
    <2>2. cur # None BY <1>2, ConstAssumption DEF Projects
    <2> QED BY <1>1, <1>2, <2>1, <2>2, TakesProject DEF Inv, Typed, files
  <1>3. CASE ~(cur # task.seen /\ cur \in Listed)
    <2>1. /\ task' = [task EXCEPT !.pc = "wait", !.seen = cur]
          /\ Apply(task.run, IF cur = task.seen THEN status ELSE Choosing(status))
      BY <1>3 DEF Judge, Go
    <2>2. task' \in TaskType /\ task'.pc = "wait" /\ task'.run = task.run /\ task'.proj = None
      BY <1>1, <2>1 DEF Inv, Typed, TaskType, Pcs, Login
    <2>3. OnPage => status.phase \in {"Choose", "Working"}
      BY Current DEF Shown, Provisioning, Granting
    <2>4. Choosing(status) \in StatusType /\ Choosing(status).phase \in {"Choose", "Working"}
      BY DEF Choosing, Inv, Typed, StatusType, Phases
    <2>5. status' \in StatusType /\ (OnPage => status'.phase \in {"Choose", "Working"})
      BY <2>1, <2>3, <2>4 DEF Apply, Inv, Typed
    <2>6. {"Choose", "Working"} \subseteq Shown("wait") BY DEF Shown, Phases
    <2>7. task'.pc \in Login \ {"none", "await"} BY <2>2 DEF Login
    <2> QED BY <1>1, <2>2, <2>5, <2>6, <2>7, LoginMoves DEF Inv, Typed, files
  <1> QED BY <1>2, <1>3

\* What the project source gives is nothing, or was picked.
LEMMA FallbackPicked ==
    ASSUME Inv, OnPage, NEW v \in ProjectOrNone, v \in {initial, None} \cup picks
    PROVE  Fallback(v) \in ProjectOrNone /\ (Fallback(v) # None => Fallback(v) \in picks)
  BY DEF Fallback, ProjectOrNone

\* The project comes from the page, where the person chose it.
LEMMA PollPageInv == ASSUME Inv, PollPage PROVE Inv'
  <1>1. /\ proc = "setup" /\ task.pc = "wait" /\ mode = "page" /\ OnPage
        /\ UNCHANGED <<env, files, cloud, issued, run, page, olds, hist, saves, cache, faults>>
    BY DEF PollPage, At, OnPage
  <1>2. Picked' /\ cache' \in CacheType /\ faults' \in Nat
    BY <1>1, SourceKept DEF hist, Inv, Typed
  <1>3. CASE page # None /\ Judge(page)
    <2>1. page \in ProjectOrNone /\ page \in picks
      BY <1>1, <1>3 DEF Inv, Typed, Picked, ProjectOrNone, Projects
    <2> QED BY <1>1, <1>2, <1>3, <2>1, JudgeInv
  <1>4. CASE page = None /\ cache.there /\ Judge(Fallback(cache.value))
    <2>1. cache.value \in ProjectOrNone /\ cache.value \in {initial, None} \cup picks
      BY <1>1, <1>4 DEF Inv, Typed, CacheType, Picked
    <2>2. /\ Fallback(cache.value) \in ProjectOrNone
          /\ Fallback(cache.value) # None => Fallback(cache.value) \in picks
      BY <1>1, <2>1, FallbackPicked
    <2> QED BY <1>1, <1>2, <1>4, <2>2, JudgeInv
  <1> QED BY <1>3, <1>4 DEF PollPage

\* The options name a project, or none yet.
LEMMA OptionsReadInv == ASSUME Inv, OptionsRead PROVE Inv'
  <1>1. /\ proc = "setup" /\ task.pc = "read" /\ opt \in ProjectOrNone
        /\ UNCHANGED <<env, files, cloud, issued, run, page, olds, hist, saves, faults>>
    BY DEF OptionsRead, At, Inv, Typed
  <1>2. faults' \in Nat BY <1>1 DEF Inv, Typed
  <1>3. CASE mode = "page"
    <2>1. OnPage /\ Judge(Fallback(opt)) /\ cache' = [there |-> TRUE, value |-> opt]
      BY <1>1, <1>3 DEF OptionsRead, OnPage
    <2>2. opt \in {initial, None} \cup picks BY <2>1 DEF Inv, Picked
    <2>3. Fallback(opt) \in ProjectOrNone /\ (Fallback(opt) # None => Fallback(opt) \in picks)
      BY <1>1, <2>1, <2>2, FallbackPicked
    <2>4. cache' \in CacheType BY <1>1, <2>1 DEF CacheType
    <2>5. Picked' BY <1>1, <2>1, <2>2 DEF Inv, Picked, OnPage, env, hist
    <2> QED BY <1>1, <1>2, <2>1, <2>3, <2>4, <2>5, JudgeInv
  <1>4. CASE mode # "page"
    <2>1. Judge(opt) /\ cache' = cache BY <1>4 DEF OptionsRead
    <2>2. Picked' /\ cache' \in CacheType BY <1>1, <2>1, SourceKept DEF hist, Inv, Typed
    <2> QED BY <1>1, <1>2, <1>4, <2>1, <2>2, JudgeInv
  <1> QED BY <1>3, <1>4

\* Options that cannot be read count as empty for the page, and are read again by
\* the log.
LEMMA OptionsFailInv == ASSUME Inv, OptionsFail PROVE Inv'
  <1>1. /\ proc = "setup" /\ task.pc = "read"
        /\ UNCHANGED <<env, files, cloud, issued, run, page, olds, hist, saves>>
    BY DEF OptionsFail, At
  <1>2. faults' \in Nat BY FaultNat DEF OptionsFail
  <1>3. CASE mode = "page"
    <2>1. Judge(None) /\ cache' = [there |-> TRUE, value |-> None]
      BY <1>3 DEF OptionsFail
    <2>2. cache' \in CacheType /\ None \in ProjectOrNone BY <2>1 DEF CacheType, ProjectOrNone
    <2>3. Picked' BY <1>1, <2>1 DEF Inv, Picked, OnPage, env, hist
    <2> QED BY <1>1, <1>2, <2>1, <2>2, <2>3, JudgeInv
  <1>4. CASE mode # "page"
    <2>1. task' = [task EXCEPT !.pc = "wait"] /\ UNCHANGED <<status, cache>>
      BY <1>4 DEF OptionsFail, Go
    <2>2. keyFile = None /\ task.proj = None /\ task.pc \in Login \ {"none"}
      BY <1>1 DEF Inv, TaskFits, Login, Keyless
    <2>3. /\ task' \in TaskType /\ task'.pc = "wait" /\ task'.run = task.run /\ task'.proj = None
          /\ task'.pc \in Login \ {"none", "await"}
      BY <2>1, <2>2 DEF Inv, Typed, TaskType, Pcs, Login
    <2>4. Picked' BY <1>1, <2>1, SourceKept DEF hist
    <2> QED BY <1>1, <1>2, <1>4, <2>1, <2>2, <2>3, <2>4, LoginMoves
            DEF OnPage, Inv, Typed, files
  <1> QED BY <1>3, <1>4

----------------------------------------------------------------------------
(* The account, its grant and its key.                                     *)

\* A step of a run that provisions and reports that it goes on working.
LEMMA WorkMoves ==
    ASSUME Inv, proc = "setup", task.pc \in Provisioning \ {"email"},
           UNCHANGED <<env, keyFile, pendingFile, sessionFile, acct, issued, run, page, cache,
                       olds, hist, saves>>,
           bound \subseteq bound', bound' \subseteq Accounts,
           task' \in TaskType, task'.run = task.run, task'.proj = task.proj,
           task'.pc \in Provisioning \ {"email"}, TaskFits',
           status' = status \/ Apply(task.run, [status EXCEPT !.phase = "Working"]),
           faults' \in Nat
    PROVE  Inv'
  <1>1. Unrecorded = {} BY DEF Unrecorded, Provisioning, Granting
  <1>2. OnPage => task.run = run /\ status.phase = "Working"
    <2>1. OnPage => task.run = run /\ status.phase \in Shown(task.pc)
      BY Current DEF Provisioning, Granting
    <2> QED BY <2>1 DEF Shown, Provisioning, Granting
  <1>3. status' \in StatusType /\ (OnPage => status'.phase = "Working")
    BY <1>2 DEF Apply, Inv, Typed, StatusType, Phases, OnPage
  <1>4. PageFits'
    <2>1. "Working" \in Shown(task.pc)' BY DEF Shown, Phases
    <2>2. task'.pc # "poll" BY DEF Provisioning, Granting
    <2> QED BY <1>2, <1>3, <2>1, <2>2 DEF PageFits, OnPage, env, Inv
  <1>5. Picked' BY SourceKept DEF hist
  <1>6. PickedByPerson' BY DEF PickedByPerson, OnPage, env, hist, Inv
  <1>7. task'.pc \notin {"email", "over"} BY DEF Provisioning, Granting
  <1> QED BY <1>1, <1>3, <1>4, <1>5, <1>6, <1>7, RunMoves DEF Inv, Typed, hist

\* The account of an earlier attempt is taken up when it still exists.
LEMMA ReuseInv == ASSUME Inv, Reuse PROVE Inv'
  <1>1. /\ task.pc = "reuse" /\ proc = "setup" /\ task.proj \in Projects
        /\ pendingFile.acct \in Accounts /\ pendingFile.proj = task.proj /\ keyFile = None
        /\ acct[pendingFile.acct].st \in {"ready", "deleted"}
        /\ acct[pendingFile.acct].proj = pendingFile.proj
        /\ pendingFile.refused \in BOOLEAN
        /\ pendingFile.refused => pendingFile.acct \in told
    BY DEF Reuse, At, Inv, Typed, PendingType, AccountOrNone, TaskFits, FilesFit, Provisioning,
           Keyless
  <1>2. UNCHANGED <<env, files, cloud, issued, run, page, cache, olds, hist, faults, saves>>
    BY DEF Reuse
  <1>3. CASE acct[pendingFile.acct].st = "ready"
    <2>1. /\ task' = [task EXCEPT !.pc = "grant", !.acct = pendingFile.acct,
                                  !.refused = pendingFile.refused]
          /\ Apply(task'.run, [status EXCEPT !.phase = "Working"])
      BY <1>3 DEF Reuse, Worked, Go
    <2>2. /\ task' \in TaskType /\ task'.pc = "grant" /\ task'.run = task.run
          /\ task'.proj = task.proj /\ task'.acct = pendingFile.acct
          /\ task'.refused = pendingFile.refused
      BY <1>1, <2>1 DEF Inv, Typed, TaskType, Pcs, Provisioning, Granting, AccountOrNone
    <2>3. TaskFits'
      BY <1>1, <1>2, <1>3, <2>2
      DEF TaskFits, Login, Provisioning, Granting, Granted, Keyless, files, cloud, hist
    <2> QED BY <1>1, <1>2, <2>1, <2>2, <2>3, WorkMoves
            DEF Provisioning, Granting, files, cloud, Inv, Typed
  <1>4. CASE acct[pendingFile.acct].st # "ready"
    <2>1. task' = [task EXCEPT !.pc = "create"] /\ UNCHANGED status
      BY <1>4 DEF Reuse, Go
    <2>2. /\ task' \in TaskType /\ task'.pc = "create" /\ task'.run = task.run
          /\ task'.proj = task.proj
      BY <2>1 DEF Inv, Typed, TaskType, Pcs, Provisioning
    <2>3. TaskFits'
      BY <1>1, <1>2, <1>4, <2>2
      DEF TaskFits, Login, Provisioning, Granting, Granted, Keyless, files, cloud, hist
    <2> QED BY <1>1, <1>2, <2>1, <2>2, <2>3, WorkMoves
            DEF Provisioning, files, cloud, Inv, Typed
  <1> QED BY <1>3, <1>4

\* What a run that has its account on record knows.
LEMMA GrantingFits ==
    ASSUME Inv, task.pc \in Granting
    PROVE  /\ task.acct \in Accounts /\ task.proj \in Projects
           /\ acct[task.acct].st # "unused" /\ acct[task.acct].proj = task.proj
           /\ pendingFile.acct = task.acct /\ pendingFile.proj = task.proj
           /\ task.refused => task.acct \in told
           /\ task.pc \in Granted => task.acct \in bound \cup told
           /\ task.pc # "written" => keyFile = None
  BY DEF Inv, TaskFits, Granting, Provisioning, Granted, Keyless

\* The role is given to the account that was recorded.
LEMMA GrantInv == ASSUME Inv, Grant PROVE Inv'
  <1>1. task.pc = "grant" /\ task.pc \in Granting /\ proc = "setup" BY DEF Grant, At, Granting
  <1>2. /\ task' \in TaskType /\ task'.pc = "ready" /\ task'.run = task.run
        /\ task'.proj = task.proj /\ task'.acct = task.acct /\ task'.refused = task.refused
    BY DEF Grant, Go, Inv, Typed, TaskType, Pcs, Provisioning, Granting
  <1>3. bound \subseteq bound' /\ bound' \subseteq Accounts /\ task.acct \in bound'
    BY <1>1, GrantingFits DEF Grant, Inv, Typed
  <1>4. TaskFits'
    BY <1>1, <1>2, <1>3, GrantingFits
    DEF Grant, TaskFits, Login, Provisioning, Granting, Granted, Keyless, files, hist
  <1> QED BY <1>1, <1>2, <1>3, <1>4, WorkMoves
          DEF Grant, Provisioning, Granting, files, ctl, Inv, Typed

\* The role is in force before a key is asked for.
LEMMA BindingReadyInv == ASSUME Inv, BindingReady PROVE Inv'
  <1>1. task.pc = "ready" /\ task.pc \in Granting /\ task.pc \in Granted /\ proc = "setup"
    BY DEF BindingReady, At, Granting, Granted
  <1>2. /\ task' \in TaskType /\ task'.pc = "key" /\ task'.run = task.run
        /\ task'.proj = task.proj /\ task'.acct = task.acct /\ task'.refused = task.refused
    BY DEF BindingReady, Worked, Go, Inv, Typed, TaskType, Pcs, Provisioning, Granting
  <1>3. TaskFits'
    BY <1>1, <1>2, GrantingFits
    DEF BindingReady, TaskFits, Login, Provisioning, Granting, Granted, Keyless, files, cloud, hist
  <1>4. Apply(task.run, [status EXCEPT !.phase = "Working"])
    BY <1>2 DEF BindingReady, Worked, Inv, Typed, TaskType
  <1> QED BY <1>1, <1>2, <1>3, <1>4, WorkMoves
          DEF BindingReady, Provisioning, Granting, files, cloud, Inv, Typed

\* The key is of the account that has the role.
LEMMA CreateKeyInv == ASSUME Inv, CreateKey PROVE Inv'
  <1>1. task.pc = "key" /\ task.pc \in Granting /\ task.pc \in Granted /\ proc = "setup"
    BY DEF CreateKey, At, Granting, Granted
  <1>2. CASE Go([task EXCEPT !.pc = "keyed"]) /\ UNCHANGED faults
    <2>1. /\ task' \in TaskType /\ task'.pc = "keyed" /\ task'.run = task.run
          /\ task'.proj = task.proj /\ task'.acct = task.acct /\ task'.refused = task.refused
      BY <1>2 DEF Go, Inv, Typed, TaskType, Pcs, Provisioning, Granting
    <2>2. TaskFits'
      BY <1>1, <2>1, GrantingFits
      DEF CreateKey, TaskFits, Login, Provisioning, Granting, Granted, Keyless, files, cloud, hist
    <2> QED BY <1>1, <1>2, <2>1, <2>2, WorkMoves
            DEF CreateKey, Provisioning, Granting, files, cloud, ctl, Inv, Typed
  <1>3. CASE Fault /\ Go(EndWith(task, "Failed"))
    <2>1. Fails("Failed")
      BY <1>1, <1>3 DEF CreateKey, Fails, Unrecorded, hist
    <2> QED BY <1>1, <1>3, <2>1, FailsInv, FaultNat DEF Errors
  <1> QED BY <1>2, <1>3 DEF CreateKey

\* A new account: the one on record is of another project, or deleted, so the
\* project has no other.
LEMMA CreateInv == ASSUME Inv, Create PROVE Inv'
  <1> DEFINE a == CHOOSE b \in Accounts : acct[b].st = "unused"
  <1>1. a \in Accounts /\ acct[a].st = "unused" BY DEF Create
  <1>2. /\ task.pc = "create" /\ proc = "setup" /\ task.proj \in Projects /\ keyFile = None
        /\ acct' = [acct EXCEPT ![a] = [st |-> "new", proj |-> task.proj]]
        /\ UNCHANGED <<env, files, bound, issued, ctl, olds, picks, told, saves>>
    BY DEF Create, At, Inv, TaskFits, Provisioning, Keyless
  <1>3. \/ task' = [task EXCEPT !.pc = "email", !.acct = a] /\ UNCHANGED <<lost, faults>>
        \/ Fault /\ task' = EndWith(task, "Failed") /\ lost' = lost \cup {a}
    BY DEF Create, Go
  <1> HIDE DEF a
  <1>4. /\ acct' \in [Accounts -> AcctType]
        /\ acct'[a].st = "new" /\ acct'[a].proj = task.proj
        /\ \A b \in Accounts : b # a => acct'[b] = acct[b]
    BY <1>1, <1>2 DEF Inv, Typed, AcctType, ProjectOrNone
  <1>5. pendingFile.acct # a
    BY <1>1, ConstAssumption DEF Inv, FilesFit
  <1>6. FilesFit'
    <2>1. pendingFile.acct # None => acct'[pendingFile.acct] = acct[pendingFile.acct]
      BY <1>4, <1>5 DEF Inv, Typed, PendingType, AccountOrNone
    <2> QED BY <1>2, <2>1 DEF Inv, FilesFit, files
  <1>7. Live' = Live \cup {a} BY <1>1, <1>4 DEF Live
  <1>8. \A b \in Live \ lost : b = pendingFile.acct /\ acct[b].proj # task.proj
    <2> SUFFICES ASSUME NEW b \in Live \ lost
                 PROVE  b = pendingFile.acct /\ acct[b].proj # task.proj
      OBVIOUS
    <2>1. b \in Accounts /\ acct[b].st \in {"new", "ready"} BY DEF Live
    <2>2. b # None BY <2>1, ConstAssumption
    <2>3. b = pendingFile.acct BY <1>2, <2>2 DEF Inv, OneAccount, Unrecorded
    <2> QED BY <1>2, <2>1, <2>2, <2>3 DEF Inv, TaskFits, FilesFit
  <1>9. KeyBacked' BY <1>2 DEF KeyBacked, files
  <1>10. OnPage => task.run = run /\ status.phase = "Working"
    BY <1>2, Current DEF Shown, Provisioning
  <1>11. Picked' BY <1>2, SourceKept DEF ctl
  <1>12. /\ task' \in TaskType /\ task'.run = task.run /\ task'.proj = task.proj
         /\ task'.pc \in {"email", "end"} /\ TaskFits' /\ OneAccount'
         /\ lost' \subseteq Accounts /\ faults' \in Nat
    <2>1. CASE task' = [task EXCEPT !.pc = "email", !.acct = a] /\ UNCHANGED <<lost, faults>>
      <3>1. /\ task' \in TaskType /\ task'.run = task.run /\ task'.proj = task.proj
            /\ task'.pc = "email" /\ task'.acct = a
        BY <1>1, <2>1 DEF Inv, Typed, TaskType, Pcs, Provisioning, AccountOrNone
      <3>2. TaskFits'
        BY <1>1, <1>2, <1>4, <3>1
        DEF TaskFits, Login, Provisioning, Granting, Granted, Keyless, files
      <3>3. OneAccount'
        <4>1. Unrecorded' = {a} BY <3>1 DEF Unrecorded
        <4>2. \A b \in Live \ lost : b # a /\ acct'[b] = acct[b]
          BY <1>1, <1>4 DEF Live
        <4> QED BY <1>2, <1>4, <1>7, <1>8, <2>1, <4>1, <4>2 DEF OneAccount, Inv, files
      <3> QED BY <2>1, <3>1, <3>2, <3>3 DEF Inv, Typed
    <2>2. CASE Fault /\ task' = EndWith(task, "Failed") /\ lost' = lost \cup {a}
      <3>1. /\ task' \in TaskType /\ task'.run = task.run /\ task'.proj = task.proj
            /\ task'.pc = "end" /\ task'.result = "Failed"
        BY <2>2, EndWithType DEF Inv, Typed, Errors
      <3>2. TaskFits'
        BY <3>1 DEF TaskFits, Login, Provisioning, Granting, Granted, Keyless
      <3>3. OneAccount'
        <4>1. Live' \ lost' = Live \ lost BY <1>1, <1>7, <2>2 DEF Live
        <4>2. \A b \in Live \ lost : acct'[b] = acct[b]
          BY <1>1, <1>4 DEF Live
        <4> QED BY <1>2, <1>8, <4>1, <4>2 DEF OneAccount, Inv, files
      <3> QED BY <1>1, <2>2, <3>1, <3>2, <3>3, FaultNat DEF Inv, Typed
    <2> QED BY <1>3, <2>1, <2>2
  <1>13. PageFits'
    <2>1. "Working" \in Shown(task.pc)' BY <1>12 DEF Shown, Phases, Provisioning
    <2> QED BY <1>2, <1>10, <1>12, <2>1 DEF PageFits, OnPage, env, ctl, Inv
  <1>14. PickedByPerson' BY <1>2, <1>12 DEF PickedByPerson, OnPage, env, Inv
  <1>15. Resting' /\ SessionDropped' BY <1>2, <1>12 DEF Resting, SessionDropped, env
  <1>16. DoneAgrees' BY <1>2, <1>10 DEF DoneAgrees, OnPage, env, ctl
  <1>17. Typed' BY <1>2, <1>4, <1>12 DEF Inv, Typed, env, files, ctl
  <1> QED BY <1>6, <1>9, <1>11, <1>12, <1>13, <1>14, <1>15, <1>16, <1>17 DEF Inv

\* A step of a run that provisions, whatever it writes: the page goes on saying
\* that it works.
LEMMA WorkWrites ==
    ASSUME Inv, proc = "setup", task.pc \in Provisioning,
           UNCHANGED <<env, sessionFile, acct, bound, issued, run, page, cache, olds, picks, saves>>,
           task' \in TaskType, task'.run = task.run, task'.proj = task.proj,
           task'.pc \in Provisioning \cup {"end"}, task'.pc # "email",
           status' = status \/ Apply(task.run, [status EXCEPT !.phase = "Working"]),
           keyFile' \in AccountOrNone, pendingFile' \in PendingType, told' \subseteq Accounts,
           lost' \subseteq Accounts, faults' \in Nat,
           TaskFits', FilesFit', OneAccount', KeyBacked'
    PROVE  Inv'
  <1>1. OnPage => task.run = run /\ status.phase = "Working"
    <2>1. OnPage => task.run = run /\ status.phase \in Shown(task.pc)
      BY Current DEF Provisioning, Granting
    <2> QED BY <2>1 DEF Shown, Provisioning, Granting
  <1>2. status' \in StatusType /\ (OnPage => status'.phase = "Working")
    BY <1>1 DEF Apply, Inv, Typed, StatusType, Phases, OnPage
  <1>3. PageFits'
    <2>1. "Working" \in Shown(task.pc)' BY DEF Shown, Phases
    <2>2. task'.pc # "poll" BY DEF Provisioning, Granting
    <2> QED BY <1>1, <1>2, <2>1, <2>2 DEF PageFits, OnPage, env, Inv
  <1>4. Picked' BY SourceKept
  <1>5. PickedByPerson' BY DEF PickedByPerson, OnPage, env, Inv
  <1>6. Resting' /\ SessionDropped'
    BY DEF Resting, SessionDropped, env, Provisioning, Granting
  <1>7. DoneAgrees' BY <1>2 DEF DoneAgrees, OnPage, env
  <1>8. Typed' BY <1>2 DEF Inv, Typed, env
  <1> QED BY <1>3, <1>4, <1>5, <1>6, <1>7, <1>8 DEF Inv

\* The account goes on record, in place of the one that was there.
LEMMA RecordInv == ASSUME Inv, Record PROVE Inv'
  <1>1. /\ task.pc = "email" /\ proc = "setup" /\ task.acct \in Accounts /\ task.proj \in Projects
        /\ acct[task.acct].st = "ready" /\ acct[task.acct].proj = task.proj /\ keyFile = None
    BY DEF Record, At, Inv, TaskFits, Provisioning, Keyless
  <1>2. /\ pendingFile' = [acct |-> task.acct, proj |-> task.proj, refused |-> FALSE]
        /\ lost' = lost \cup ({pendingFile.acct} \ {None})
        /\ task' = [task EXCEPT !.pc = "grant", !.refused = FALSE]
        /\ Apply(task'.run, [status EXCEPT !.phase = "Working"])
        /\ UNCHANGED <<env, keyFile, sessionFile, cloud, issued, run, page, cache, olds, picks,
                       told, faults, saves>>
    BY DEF Record, Worked, Go
  <1>3. /\ task' \in TaskType /\ task'.pc = "grant" /\ task'.run = task.run
        /\ task'.proj = task.proj /\ task'.acct = task.acct /\ task'.refused = FALSE
    BY <1>2 DEF Inv, Typed, TaskType, Pcs, Provisioning, Granting
  <1>4. /\ pendingFile' \in PendingType /\ pendingFile'.acct = task.acct
        /\ pendingFile'.proj = task.proj /\ pendingFile'.refused = FALSE
    BY <1>1, <1>2 DEF PendingType, AccountOrNone, ProjectOrNone
  <1>5. lost' \subseteq Accounts
    BY <1>2 DEF Inv, Typed, PendingType, AccountOrNone
  <1>6. TaskFits'
    BY <1>1, <1>2, <1>3, <1>4
    DEF TaskFits, Login, Provisioning, Granting, Granted, Keyless, cloud
  <1>7. FilesFit'
    BY <1>1, <1>2, <1>4, ConstAssumption DEF FilesFit, cloud
  <1>8. OneAccount'
    <2>1. Live' = Live BY <1>2 DEF Live, cloud
    <2>2. OneAccount BY DEF Inv
    <2>3. \A b \in Live : b # None BY ConstAssumption DEF Live
    <2>4. Unrecorded = {task.acct} BY <1>1 DEF Unrecorded
    <2> QED BY <1>1, <1>2, <1>4, <2>1, <2>2, <2>3, <2>4 DEF OneAccount, cloud
  <1>9. KeyBacked' BY <1>1, <1>2 DEF KeyBacked
  <1> QED BY <1>1, <1>2, <1>3, <1>4, <1>5, <1>6, <1>7, <1>8, <1>9, WorkWrites
          DEF Provisioning, Granting, Inv, Typed, cloud, AccountOrNone

\* A refused grant: the run goes on if the owner was told before, or ends with
\* the refusal on record.
LEMMA ForbiddenInv == ASSUME Inv, Forbidden PROVE Inv'
  <1>1. task.pc = "grant" /\ task.pc \in Granting /\ proc = "setup"
    BY DEF Forbidden, At, Granting
  <1>2. UNCHANGED <<env, keyFile, sessionFile, cloud, issued, run, page, cache, olds, picks,
                    lost, faults, saves>>
    BY DEF Forbidden
  <1>3. CASE task.refused
    <2>1. /\ task' = [task EXCEPT !.pc = "key"]
          /\ Apply(task'.run, [status EXCEPT !.phase = "Working"])
          /\ UNCHANGED <<pendingFile, told>>
      BY <1>3 DEF Forbidden, Worked, Go
    <2>2. /\ task' \in TaskType /\ task'.pc = "key" /\ task'.run = task.run
          /\ task'.proj = task.proj /\ task'.acct = task.acct /\ task'.refused = task.refused
      BY <2>1 DEF Inv, Typed, TaskType, Pcs, Provisioning, Granting
    <2>3. TaskFits'
      BY <1>1, <1>2, <1>3, <2>1, <2>2, GrantingFits
      DEF TaskFits, Login, Provisioning, Granting, Granted, Keyless, cloud
    <2> QED BY <1>1, <1>2, <2>1, <2>2, <2>3, WorkMoves
            DEF Provisioning, Granting, cloud, hist, Inv, Typed
  <1>4. CASE ~task.refused
    <2>1. /\ pendingFile' = [acct |-> task.acct, proj |-> task.proj, refused |-> TRUE]
          /\ told' = told \cup {task.acct}
          /\ task' = EndWith(task, "BindingForbidden") /\ UNCHANGED status
      BY <1>4 DEF Forbidden, Go
    <2>2. /\ task' \in TaskType /\ task'.pc = "end" /\ task'.run = task.run
          /\ task'.proj = task.proj /\ task'.result = "BindingForbidden"
      BY <2>1, EndWithType DEF Inv, Typed, Errors
    <2>3. /\ task.acct \in Accounts /\ task.proj \in Projects /\ task.acct = pendingFile.acct
          /\ task.proj = pendingFile.proj
      BY <1>1, GrantingFits
    <2>4. /\ pendingFile' \in PendingType /\ pendingFile'.acct = task.acct
          /\ pendingFile'.proj = task.proj /\ told' \subseteq Accounts
      BY <2>1, <2>3 DEF PendingType, AccountOrNone, ProjectOrNone, Inv, Typed
    <2>5. TaskFits'
      BY <2>2 DEF TaskFits, Login, Provisioning, Granting, Granted, Keyless
    <2>6. FilesFit'
      BY <1>2, <2>1, <2>3, <2>4, ConstAssumption DEF Inv, FilesFit, cloud
    <2>7. OneAccount'
      <3>1. Live' = Live BY <1>2 DEF Live, cloud
      <3>2. OneAccount BY DEF Inv
      <3>3. Unrecorded = {} BY <1>1 DEF Unrecorded
      <3> QED BY <1>2, <2>3, <2>4, <3>1, <3>2, <3>3 DEF OneAccount, cloud
    <2>8. KeyBacked' BY <1>2, <2>1 DEF Inv, KeyBacked, cloud
    <2> QED BY <1>1, <1>2, <2>1, <2>2, <2>4, <2>5, <2>6, <2>7, <2>8, WorkWrites
            DEF Provisioning, Inv, Typed, cloud
  <1> QED BY <1>3, <1>4

\* The key appears: of the account on record, which was granted access.
LEMMA WriteKeyInv == ASSUME Inv, WriteKey PROVE Inv'
  <1>1. task.pc = "keyed" /\ task.pc \in Granting /\ task.pc \in Granted /\ proc = "setup"
    BY DEF WriteKey, At, Granting, Granted
  <1>2. UNCHANGED <<env, pendingFile, sessionFile, cloud, issued, ctl, olds, hist, saves>>
    BY DEF WriteKey
  <1>3. CASE keyFile' = task.acct /\ Go([task EXCEPT !.pc = "written"]) /\ UNCHANGED faults
    <2>1. /\ task' \in TaskType /\ task'.pc = "written" /\ task'.run = task.run
          /\ task'.proj = task.proj /\ task'.acct = task.acct /\ task'.refused = task.refused
      BY <1>3 DEF Go, Inv, Typed, TaskType, Pcs, Provisioning, Granting
    <2>2. TaskFits'
      BY <1>1, <1>2, <1>3, <2>1, GrantingFits
      DEF TaskFits, Login, Provisioning, Granting, Granted, Keyless, cloud, hist
    <2>3. FilesFit'
      BY <1>1, <1>2, <1>3, GrantingFits DEF Inv, FilesFit, cloud, hist
    <2>4. OneAccount'
      <3>1. Live' = Live BY <1>2 DEF Live, cloud
      <3>2. OneAccount BY DEF Inv
      <3>3. Unrecorded = {} /\ keyFile = None BY <1>1, GrantingFits DEF Unrecorded
      <3>4. \A b \in Live : b # None BY ConstAssumption DEF Live
      <3> QED BY <1>2, <1>3, <3>1, <3>2, <3>3, <3>4 DEF OneAccount, cloud, hist
    <2>5. KeyBacked' BY <1>1, <1>2, <1>3, GrantingFits DEF KeyBacked, cloud, hist
    <2>6. keyFile' \in AccountOrNone BY <1>1, <1>3, GrantingFits DEF AccountOrNone
    <2> QED BY <1>1, <1>2, <1>3, <2>1, <2>2, <2>3, <2>4, <2>5, <2>6, WorkWrites
            DEF Provisioning, Granting, Inv, Typed, cloud, ctl, hist
  <1>4. CASE Fault /\ Go(EndWith(task, "Failed")) /\ UNCHANGED keyFile
    <2>1. Fails("Failed")
      BY <1>1, <1>2, <1>4 DEF Fails, Unrecorded, hist, files
    <2> QED BY <1>1, <1>4, <2>1, FailsInv, FaultNat DEF Errors
  <1> QED BY <1>3, <1>4 DEF WriteKey

\* The record goes once the key of its account is there.
LEMMA DropPendingInv == ASSUME Inv, DropPending PROVE Inv'
  <1>1. /\ task.pc = "written" /\ task.pc \in Granting /\ proc = "setup"
        /\ keyFile = task.acct
    BY DEF DropPending, At, Granting, Inv, TaskFits
  <1>2. /\ pendingFile' = NoPending
        /\ task' = EndWith(task, "Ok")
        /\ Apply(task'.run, [status EXCEPT !.phase = "Working"])
        /\ UNCHANGED <<env, keyFile, sessionFile, cloud, issued, run, page, cache, olds, hist,
                       faults, saves>>
    BY DEF DropPending, Worked, Go
  <1>3. /\ task' \in TaskType /\ task'.pc = "end" /\ task'.run = task.run
        /\ task'.proj = task.proj /\ task'.result = "Ok"
    BY <1>2, EndWithType DEF Inv, Typed
  <1>4. pendingFile' \in PendingType /\ pendingFile'.acct = None
    BY <1>2 DEF NoPending, PendingType, AccountOrNone, ProjectOrNone
  <1>5. TaskFits'
    BY <1>1, <1>2, <1>3, GrantingFits, ConstAssumption
    DEF TaskFits, Login, Provisioning, Granting, Granted, Keyless, cloud
  <1>6. FilesFit' BY <1>1, <1>2, <1>4, GrantingFits DEF FilesFit, cloud
  <1>7. OneAccount'
    <2>1. Live' = Live BY <1>2 DEF Live, cloud
    <2>2. OneAccount BY DEF Inv
    <2>3. Unrecorded = {} /\ pendingFile.acct = keyFile
      BY <1>1, GrantingFits DEF Unrecorded
    <2> QED BY <1>2, <2>1, <2>2, <2>3 DEF OneAccount, cloud, hist
  <1>8. KeyBacked' BY <1>2 DEF Inv, KeyBacked, cloud, hist
  <1> QED BY <1>1, <1>2, <1>3, <1>4, <1>5, <1>6, <1>7, <1>8, WorkWrites
          DEF Provisioning, Inv, Typed, cloud, hist

\* remove_session, then what the page says: connected only with a key.
LEMMA FinishInv == ASSUME Inv, Finish PROVE Inv'
  <1> DEFINE ok == task.result = "Ok"
             s  == IF ok
                   THEN [status EXCEPT !.phase = "Done", !.project = task.proj, !.error = "none"]
                   ELSE [status EXCEPT !.phase = "Failed", !.code = None,
                                       !.error = ErrorView(task.result)]
  <1>1. /\ task.pc = "end" /\ proc = "setup" /\ task.result \in Errors \cup {"Ok"}
        /\ ok => keyFile # None /\ acct[keyFile].proj = task.proj
    BY DEF Finish, At, Inv, Typed, TaskType, TaskFits
  <1>2. /\ sessionFile' = NoSession /\ Apply(task.run, s)
        /\ task' = [NoTask EXCEPT !.pc = "over", !.result = IF ok THEN "Ok" ELSE "none"]
        /\ UNCHANGED <<env, keyFile, pendingFile, cloud, issued, run, page, cache, olds, hist,
                       faults, saves>>
    BY DEF Finish, Go
  <1>3. task' \in TaskType /\ task'.pc = "over" /\ task'.proj = None
    BY <1>2, NotRun DEF NoTask, TaskType, Pcs
  <1>4. /\ s \in StatusType
        /\ ok => s.phase = "Done" /\ s.project = task.proj
        /\ ~ok => s.phase = "Failed"
    <2>1. CASE ok
      <3>1. s = [status EXCEPT !.phase = "Done", !.project = task.proj, !.error = "none"]
        BY <2>1
      <3> HIDE DEF s, ok
      <3> QED BY <2>1, <3>1 DEF Inv, Typed, StatusType, Phases, TaskType
    <2>2. CASE ~ok
      <3>1. s = [status EXCEPT !.phase = "Failed", !.code = None,
                               !.error = ErrorView(task.result)]
        BY <2>2
      <3>2. ErrorView(task.result) \in {"expired", "denied", "forbidden", "failed"}
        BY <1>1, <2>2, ErrorViewType
      <3> HIDE DEF s, ok
      <3> QED BY <2>2, <3>1, <3>2 DEF Inv, Typed, StatusType, Phases
    <2> QED BY <2>1, <2>2
  <1>5. OnPage => task.run = run BY <1>1, Current
  <1> HIDE DEF s, ok
  <1>6. status' \in StatusType /\ (OnPage => status' = s)
    BY <1>2, <1>4, <1>5 DEF Apply, Inv, Typed, OnPage
  <1>7. FilesFit' /\ OneAccount' /\ KeyBacked'
    <2>1. Unrecorded = {} BY <1>1 DEF Unrecorded
    <2> QED BY <1>2, <2>1, Kept DEF cloud, hist
  <1>8. Typed' BY <1>2, <1>3, <1>6, NoLogin DEF Inv, Typed, env, cloud, hist
  <1>9. Resting' BY <1>1, <1>2 DEF Resting, env
  <1>10. TaskFits'
    BY <1>3 DEF TaskFits, Login, Provisioning, Granting, Granted, Keyless
  <1>11. PageFits'
    <2>1. {"Done", "Failed"} \subseteq Shown(task.pc)' BY <1>3 DEF Shown, Phases
    <2> QED BY <1>2, <1>3, <1>4, <1>6, <2>1 DEF PageFits, OnPage, env, Inv
  <1>12. Picked' BY <1>2, SourceKept DEF hist
  <1>13. SessionDropped' BY <1>1, <1>2 DEF SessionDropped, env, NoSession
  <1>14. PickedByPerson' BY <1>3 DEF PickedByPerson
  <1>15. DoneAgrees' BY <1>1, <1>2, <1>4, <1>6 DEF DoneAgrees, OnPage, env, cloud
  <1> QED BY <1>7, <1>8, <1>9, <1>10, <1>11, <1>12, <1>13, <1>14, <1>15 DEF Inv

\* One step of the run.
LEMMA StepInv == ASSUME Inv, Step PROVE Inv'
  BY BeginInv, LoadInv, GetCodeInv, ApprovedInv, CodeExpiredInv, ListProjectsInv, PollPageInv,
     PollOptionsInv, OptionsReadInv, OptionsFailInv, ReuseInv, CreateInv, RecordInv, GrantInv,
     ForbiddenInv, BindingReadyInv, CreateKeyInv, WriteKeyInv, DropPendingInv, FinishInv,
     RefusedInv, FailingInv
  DEF Step

----------------------------------------------------------------------------
(* The controller, and the runs it has thrown away.                        *)

\* A run is replaced only before it has chosen a project or after it has ended,
\* so nothing that it made is forgotten; the one thrown away has an older number.
LEMMA SpawnRunInv ==
    ASSUME Inv, OnPage, status.phase \in {"Idle", "Failed", "Starting", "Code"}, SpawnRun
    PROVE  Inv'
  <1>1. /\ run' = run + 1 /\ status' = [Blank EXCEPT !.phase = "Starting"] /\ page' = None
        /\ olds' = IF task.pc \in {"none", "over"} THEN olds
                   ELSE olds \cup {[run |-> task.run, pc |-> task.pc]}
        /\ task' = [NoTask EXCEPT !.pc = "await", !.run = run + 1, !.prev = task.run]
        /\ UNCHANGED <<env, files, cloud, issued, cache, hist, faults, saves>>
    BY DEF SpawnRun, Go
  <1>2. run \in Nat /\ run + 1 \in Nat /\ task.run \in Nat /\ task.pc \in Pcs
    BY DEF Inv, Typed, TaskType
  <1>3. /\ task' \in TaskType /\ task'.pc = "await" /\ task'.run = run + 1 /\ task'.proj = None
    BY <1>1, <1>2, NotRun DEF NoTask, TaskType, Pcs, Login
  <1>4. task.pc \in {"none", "over", "await", "load", "device", "poll", "end"}
    <2>1. status.phase \in Shown(task.pc) BY DEF Inv, PageFits
    <2> QED BY <1>2, <2>1 DEF Shown, Pcs, Login, Provisioning, Granting
  <1>5. status' \in StatusType /\ status'.phase = "Starting"
    BY <1>1 DEF Blank, StatusType, Phases, ProjectOrNone
  <1>6. olds' \subseteq OldType /\ \A o \in olds' : o.run < run'
    <2>1. olds \subseteq OldType /\ \A o \in olds : o.run < run
      BY DEF Inv, Typed, PageFits
    <2>2. task.pc \notin {"none", "over"} => task.run = run BY Current
    <2>3. CASE task.pc \in {"none", "over"} BY <1>1, <1>2, <2>1, <2>3 DEF OldType
    <2>4. CASE task.pc \notin {"none", "over"}
      <3> DEFINE o == [run |-> task.run, pc |-> task.pc]
      <3>1. o \in OldType /\ o.run < run' BY <1>1, <1>2, <1>4, <2>2, <2>4 DEF OldType
      <3>2. olds' = olds \cup {o} BY <1>1, <2>4
      <3> HIDE DEF o
      <3> QED BY <1>1, <1>2, <2>1, <3>1, <3>2 DEF OldType
    <2> QED BY <2>3, <2>4
  <1>7. FilesFit' /\ OneAccount' /\ KeyBacked'
    <2>1. Unrecorded = {} BY <1>4 DEF Unrecorded
    <2> QED BY <1>1, <2>1, Kept DEF files, cloud, hist
  <1>8. Typed'
    BY <1>1, <1>2, <1>3, <1>5, <1>6 DEF Inv, Typed, env, files, cloud, hist
  <1>9. Resting' /\ SessionDropped' BY <1>1, <1>3 DEF Resting, SessionDropped, env, OnPage
  <1>10. TaskFits'
    BY <1>3 DEF TaskFits, Login, Provisioning, Granting, Granted, Keyless
  <1>11. PageFits'
    <2>1. "Starting" \in Shown(task.pc)' BY <1>3 DEF Shown, Phases
    <2> QED BY <1>1, <1>3, <1>5, <1>6, <2>1 DEF PageFits
  <1>12. Picked' BY <1>1 DEF Inv, Picked, OnPage, env, hist
  <1>13. PickedByPerson' /\ DoneAgrees' BY <1>3, <1>5 DEF PickedByPerson, DoneAgrees
  <1> QED BY <1>7, <1>8, <1>9, <1>10, <1>11, <1>12, <1>13 DEF Inv

\* A choice on the page, made while the run waits or has just given up waiting.
LEMMA ChooseInv == ASSUME Inv, NEW p \in Listed, Choose(p) PROVE Inv'
  <1>1. /\ OnPage /\ status.phase = "Choose" /\ page' = p
        /\ status' = [status EXCEPT !.phase = "Working", !.project = p]
        /\ picks' = picks \cup {p}
        /\ UNCHANGED <<env, files, cloud, issued, run, cache, task, olds, told, lost, faults,
                       saves>>
    BY DEF Choose
  <1>2. p \in Projects BY DEF Projects
  <1>3. status' \in StatusType /\ status'.phase = "Working"
    BY <1>1, <1>2 DEF Inv, Typed, StatusType, Phases, ProjectOrNone
  <1>4. task.pc \in {"wait", "read", "end"}
    <2>1. status.phase \in Shown(task.pc) BY <1>1 DEF Inv, PageFits
    <2> QED BY <1>1, <2>1 DEF Shown, Provisioning
  <1>5. FilesFit' /\ OneAccount' /\ KeyBacked'
    BY <1>1, Kept DEF files, cloud, Unrecorded
  <1>6. Typed' BY <1>1, <1>2, <1>3 DEF Inv, Typed, env, files, cloud, ProjectOrNone
  <1>7. Resting' BY <1>1 DEF Resting, env, OnPage
  <1>8. TaskFits' BY <1>1 DEF Inv, TaskFits, files, cloud
  <1>9. PageFits'
    <2>1. "Working" \in Shown(task.pc)' BY <1>1, <1>4 DEF Shown, Phases
    <2> QED BY <1>1, <1>3, <1>4, <2>1 DEF Inv, PageFits, OnPage, env
  <1>10. Picked' BY <1>1 DEF Inv, Picked, OnPage, env
  <1>11. PickedByPerson' BY <1>1 DEF Inv, PickedByPerson, OnPage, env
  <1>12. SessionDropped' BY <1>1 DEF Inv, SessionDropped, env, files
  <1>13. DoneAgrees' BY <1>3 DEF DoneAgrees
  <1> QED BY <1>5, <1>6, <1>7, <1>8, <1>9, <1>10, <1>11, <1>12, <1>13 DEF Inv

\* Nothing but the count of codes and the runs thrown away changes.
LEMMA OldsShrink ==
    ASSUME Inv, olds' \subseteq olds, issued' \in Nat,
           UNCHANGED <<env, files, cloud, ctl, task, hist, faults, saves>>
    PROVE  Inv'
  <1>1. FilesFit' /\ OneAccount' /\ KeyBacked'
    BY Kept DEF files, cloud, hist, Unrecorded
  <1>2. Typed' BY DEF Inv, Typed, env, files, cloud, ctl, hist
  <1>3. Resting' BY DEF Inv, Resting, env, ctl, hist
  <1>4. TaskFits' BY DEF Inv, TaskFits, files, cloud, hist
  <1>5. PageFits'
    <2>1. (Shown(task.pc))' = Shown(task.pc) BY DEF Shown
    <2> QED BY <2>1 DEF Inv, PageFits, OnPage, env, ctl
  <1>6. Picked' BY SourceKept DEF ctl, hist
  <1>7. SessionDropped' BY DEF Inv, SessionDropped, env, files
  <1>8. PickedByPerson' /\ DoneAgrees'
    BY DEF Inv, PickedByPerson, DoneAgrees, OnPage, env, files, cloud, ctl, hist
  <1> QED BY <1>1, <1>2, <1>3, <1>4, <1>5, <1>6, <1>7, <1>8 DEF Inv

\* What an aborted run reports is not applied: its number is an older one.
LEMMA OldReportsInv == ASSUME Inv, NEW o \in olds, OldReports(o) PROVE Inv'
  <1>1. mode = "page" => o.run # run
    BY DEF OldReports, Inv, PageFits, OnPage, Typed
  <1>2. status' = status BY <1>1 DEF OldReports, Apply
  <1>3. issued' \in Nat BY DEF OldReports, Inv, Typed
  <1> QED BY <1>2, <1>3, OldsShrink DEF OldReports, ctl

\* What is left of an attempt that was replaced disappears.
LEMMA OldGoneInv == ASSUME Inv, NEW o \in olds, OldGone(o) PROVE Inv'
  BY OldsShrink DEF OldGone, Inv, Typed

\* The page's buttons start and restart attempts and choose a project.
LEMMA ControllerInv == ASSUME Inv, Controller PROVE Inv'
  <1>1. CASE Start
    <2>1. status.phase \in {"Idle", "Failed"}
      BY <1>1 DEF Start, Running, Inv, Typed, StatusType, Phases
    <2> QED BY <1>1, <2>1, SpawnRunInv DEF Start
  <1>2. CASE Restart BY <1>2, SpawnRunInv DEF Restart
  <1>3. CASE \E p \in Listed : Choose(p) BY <1>3, ChooseInv
  <1> QED BY <1>1, <1>2, <1>3 DEF Controller

----------------------------------------------------------------------------
(* The process, the person, Datum and time.                                *)

\* Away from setup, with nothing in memory, only the files and the accounts count.
LEMMA AtRest ==
    ASSUME Inv, proc' \in {"down", "daemon"}, UNCHANGED <<mode, acct, bound, issued, told, saves>>,
           opt' \in ProjectOrNone, initial' \in ProjectOrNone,
           keyFile' \in AccountOrNone, pendingFile' \in PendingType,
           sessionFile' \in SessionType, proc' = "daemon" => ~sessionFile'.there,
           lost' \subseteq Accounts, faults' \in Nat,
           task' = NoTask, olds' = {}, picks' = {}, run' = 0, status' = Blank, page' = None,
           cache' = [there |-> FALSE, value |-> None],
           FilesFit', OneAccount', KeyBacked'
    PROVE  Inv'
  <1>1. status' \in StatusType /\ cache' \in CacheType
    BY DEF Blank, StatusType, CacheType, Phases, ProjectOrNone
  <1>2. Typed' BY <1>1, NotRun DEF Inv, Typed
  <1>3. Resting' BY DEF Resting
  <1>4. TaskFits'
    BY DEF NoTask, TaskFits, Login, Provisioning, Granting, Granted, Keyless
  <1>5. PageFits' /\ Picked' /\ PickedByPerson' /\ DoneAgrees'
    BY DEF PageFits, Picked, PickedByPerson, DoneAgrees, OnPage
  <1>6. SessionDropped' BY DEF SessionDropped
  <1> QED BY <1>2, <1>3, <1>4, <1>5, <1>6 DEF Inv

\* What memory holds outside setup.
LEMMA Rests ==
    ASSUME Inv, proc # "setup"
    PROVE  /\ task = NoTask /\ olds = {} /\ picks = {} /\ run = 0 /\ status = Blank
           /\ page = None /\ cache = [there |-> FALSE, value |-> None] /\ Unrecorded = {}
  BY DEF Inv, Resting, Unrecorded, NoTask

\* The process ends: its memory is lost, its files and the cloud stay.
LEMMA DownInv == ASSUME Inv, Down PROVE Inv'
  <1>1. FilesFit' /\ OneAccount' /\ KeyBacked' BY Kept DEF Down, files, cloud
  <1>2. faults' \in Nat BY FaultNat DEF Down
  <1>3. lost' \subseteq Accounts BY UnrecordedAccounts DEF Down, Inv, Typed
  <1> QED BY <1>1, <1>2, <1>3, AtRest
          DEF Down, MemoryLost, files, cloud, Inv, Typed, ProjectOrNone

\* With a key there is nothing to pair.
LEMMA StartDaemonInv == ASSUME Inv, StartDaemon PROVE Inv'
  <1>1. FilesFit' /\ OneAccount' /\ KeyBacked' BY Kept DEF StartDaemon, cloud, hist, Unrecorded
  <1>2. proc # "setup" /\ proc' \in {"down", "daemon"} BY DEF StartDaemon
  <1>3. sessionFile' \in SessionType /\ ~sessionFile'.there
    BY NoLogin DEF StartDaemon, NoSession
  <1> QED BY <1>1, <1>2, <1>3, Rests, AtRest DEF StartDaemon, cloud, hist, ctl, Inv, Typed

\* The process that is started has read the options and knows of nothing else.
LEMMA StartInv ==
    ASSUME Inv, proc # "setup", keyFile = None,
           proc' = "setup", mode' \in {"page", "log"}, initial' = opt,
           run' \in Nat, task' \in TaskType, task'.proj = None,
           status' \in StatusType, status'.phase # "Code", status'.phase # "Done",
           task'.pc \in {"none", "await", "load"},
           mode' = "page" => /\ status'.phase \in Shown(task'.pc)
                             /\ task'.pc # "none" => task'.run = run',
           UNCHANGED <<opt, files, cloud, issued, page, cache, olds, hist, faults, saves>>
    PROVE  Inv'
  <1>1. FilesFit' /\ OneAccount' /\ KeyBacked'
    BY Rests, Kept DEF files, cloud, hist
  <1>2. Typed' BY DEF Inv, Typed, files, cloud, hist
  <1>3. Resting' BY DEF Resting
  <1>4. TaskFits' BY DEF TaskFits, Login, Provisioning, Granting, Granted, Keyless
  <1>5. PageFits'
    <2>1. (Shown(task.pc))' = Shown(task'.pc) BY DEF Shown
    <2> QED BY <2>1, Rests DEF PageFits, OnPage
  <1>6. Picked' BY Rests DEF Picked, OnPage
  <1>7. SessionDropped' BY DEF SessionDropped
  <1>8. PickedByPerson' /\ DoneAgrees' BY DEF PickedByPerson, DoneAgrees
  <1> QED BY <1>1, <1>2, <1>3, <1>4, <1>5, <1>6, <1>7, <1>8 DEF Inv

\* The page comes up with no attempt yet.
LEMMA StartPageInv == ASSUME Inv, StartPage PROVE Inv'
  <1>1. /\ proc = "down" /\ keyFile = None /\ proc' = "setup" /\ mode' = "page"
        /\ initial' = opt
        /\ UNCHANGED <<opt, files, cloud, issued, page, cache, olds, hist, faults, saves>>
    BY DEF StartPage
  <1>2. CASE sessionFile.there
    <2>1. /\ run' = 1 /\ status' = [Blank EXCEPT !.phase = "Starting"]
          /\ task' = [NoTask EXCEPT !.pc = "await", !.run = 1]
      BY <1>2 DEF StartPage, Go
    <2>2. task' \in TaskType /\ task'.pc = "await" /\ task'.run = 1 /\ task'.proj = None
      BY <2>1, NotRun DEF NoTask, TaskType, Pcs, Login
    <2>3. status' \in StatusType /\ status'.phase = "Starting"
      BY <2>1 DEF Blank, StatusType, Phases, ProjectOrNone
    <2>4. "Starting" \in Shown("await") BY DEF Shown, Phases
    <2> QED BY <1>1, <2>1, <2>2, <2>3, <2>4, StartInv
  <1>3. CASE ~sessionFile.there
    <2>1. UNCHANGED <<run, status, task>> BY <1>3 DEF StartPage
    <2>2. task' = NoTask /\ run' = 0 /\ status' = Blank BY <1>1, <2>1, Rests
    <2>3. task' \in TaskType /\ task'.pc = "none" /\ task'.proj = None
      BY <2>2, NotRun DEF NoTask
    <2>4. status' \in StatusType /\ status'.phase = "Idle"
      BY <2>2 DEF Blank, StatusType, Phases, ProjectOrNone
    <2>5. "Idle" \in Shown("none") BY DEF Shown, Phases
    <2> QED BY <1>1, <2>2, <2>3, <2>4, <2>5, StartInv
  <1> QED BY <1>2, <1>3

\* Without a page an attempt begins at once.
LEMMA StartLogInv == ASSUME Inv, StartLog PROVE Inv'
  <1>1. /\ proc = "down" /\ keyFile = None /\ proc' = "setup" /\ mode' = "log"
        /\ initial' = opt /\ task' = [NoTask EXCEPT !.pc = "load"]
        /\ UNCHANGED <<opt, files, cloud, issued, ctl, olds, hist, faults, saves>>
    BY DEF StartLog, Go
  <1>2. task' \in TaskType /\ task'.pc = "load" /\ task'.proj = None
    BY <1>1, NotRun DEF NoTask, TaskType, Pcs, Login
  <1>3. status' \in StatusType /\ status'.phase = "Idle"
    BY <1>1, Rests DEF Blank, StatusType, Phases, ProjectOrNone, ctl
  <1> QED BY <1>1, <1>2, <1>3, StartInv DEF ctl, Inv, Typed

\* An owner who pairs again lets go of what the files name.
LEMMA RepairInv == ASSUME Inv, Repair PROVE Inv'
  <1>1. /\ proc = "down" /\ keyFile' = None /\ pendingFile' = NoPending
        /\ lost' = lost \cup ({keyFile, pendingFile.acct} \ {None})
        /\ UNCHANGED <<env, sessionFile, cloud, issued, ctl, task, olds, picks, told, faults,
                       saves>>
    BY DEF Repair
  <1>2. /\ pendingFile' \in PendingType /\ pendingFile'.acct = None
        /\ lost' \subseteq Accounts /\ None \in AccountOrNone
    BY <1>1 DEF NoPending, PendingType, AccountOrNone, ProjectOrNone, Inv, Typed
  <1>3. OneAccount'
    <2>1. Live' = Live BY <1>1 DEF Live, cloud
    <2>2. \A b \in Live : b # None BY ConstAssumption DEF Live
    <2>3. Live \ lost \subseteq {keyFile, pendingFile.acct}
      BY <1>1, Rests DEF Inv, OneAccount
    <2>4. Live' \ lost' = {} BY <1>1, <2>1, <2>2, <2>3
    <2> QED BY <2>4 DEF OneAccount
  <1>4. FilesFit' /\ KeyBacked' BY <1>1, <1>2 DEF FilesFit, KeyBacked
  <1> QED BY <1>1, <1>2, <1>3, <1>4, Rests, AtRest DEF env, cloud, ctl, Inv, Typed

\* A key the daemon was refused is thrown away, and the record of its account perhaps
\* with it.
LEMMA ForgetKeyInv == ASSUME Inv, ForgetKey PROVE Inv'
  <1>1. /\ proc = "daemon" /\ proc' \in {"daemon", "down"}
        /\ keyFile' = None /\ pendingFile' \in {NoPending, pendingFile}
        /\ lost' = lost \cup ({keyFile, pendingFile.acct} \ {None, pendingFile'.acct})
        /\ UNCHANGED <<mode, opt, initial, sessionFile, cloud, issued, ctl, task, olds, picks,
                       told, faults, saves>>
    BY DEF ForgetKey
  <1>2. pendingFile' \in PendingType /\ lost' \subseteq Accounts /\ None \in AccountOrNone
    <2>1. NoPending \in PendingType
      BY DEF NoPending, PendingType, AccountOrNone, ProjectOrNone
    <2>2. pendingFile \in PendingType /\ keyFile \in AccountOrNone /\ lost \subseteq Accounts
      BY DEF Inv, Typed
    <2>3. pendingFile.acct \in AccountOrNone BY <2>2 DEF PendingType
    <2> QED BY <1>1, <2>1, <2>2, <2>3 DEF AccountOrNone
  <1>3. OneAccount'
    <2>1. Live' = Live BY <1>1 DEF Live, cloud
    <2>2. \A b \in Live : b # None BY ConstAssumption DEF Live
    <2>3. Live \ lost \subseteq {keyFile, pendingFile.acct}
      BY <1>1, Rests DEF Inv, OneAccount
    <2>4. Live' \ lost' \subseteq {pendingFile'.acct} BY <1>1, <2>1, <2>2, <2>3
    <2> QED BY <2>4 DEF OneAccount
  <1>4. FilesFit' /\ KeyBacked'
    BY <1>1 DEF FilesFit, KeyBacked, NoPending, Inv, cloud
  <1>5. ~sessionFile'.there BY <1>1 DEF Inv, SessionDropped
  <1> QED BY <1>1, <1>2, <1>3, <1>4, <1>5, Rests, AtRest DEF cloud, ctl, Inv, Typed

\* A finished pairing makes way for the daemon, a failed one in the log for nothing.
LEMMA HandoverInv == ASSUME Inv, Handover PROVE Inv'
  <1>1. /\ task.pc = "over" /\ proc' \in {"daemon", "down"} /\ MemoryLost
        /\ proc' = "daemon" => sessionFile' = NoSession
        /\ sessionFile' \in {NoSession, sessionFile}
        /\ UNCHANGED <<mode, opt, keyFile, pendingFile, cloud, issued, told, lost, faults, saves>>
    BY DEF Handover, At
  <1>2. FilesFit' /\ OneAccount' /\ KeyBacked' BY <1>1, Kept DEF cloud, Unrecorded
  <1>3. sessionFile' \in SessionType /\ (proc' = "daemon" => ~sessionFile'.there)
    <2>1. sessionFile \in SessionType BY DEF Inv, Typed
    <2>2. ~NoSession.there BY DEF NoSession
    <2> QED BY <1>1, <2>1, <2>2, NoLogin
  <1> QED BY <1>1, <1>2, <1>3, AtRest DEF MemoryLost, cloud, Inv, Typed, ProjectOrNone

\* The person changes the options at any time.
LEMMA SaveOptionsInv == ASSUME Inv, NEW v \in Projects \cup {None}, SaveOptions(v) PROVE Inv'
  <1>1. /\ opt' = v /\ saves' = saves + 1
        /\ picks' = IF proc = "setup" THEN picks \cup {v} ELSE picks
        /\ UNCHANGED <<proc, mode, initial, files, cloud, issued, ctl, task, olds, told, lost,
                       faults>>
    BY DEF SaveOptions
  <1>2. picks \subseteq picks' /\ picks' \subseteq ProjectOrNone
    BY <1>1 DEF Inv, Typed, ProjectOrNone
  <1>3. FilesFit' /\ OneAccount' /\ KeyBacked' BY <1>1, Kept DEF files, cloud, Unrecorded
  <1>4. Typed' BY <1>1, <1>2 DEF Inv, Typed, files, cloud, ctl, ProjectOrNone
  <1>5. Resting' BY <1>1 DEF Inv, Resting, ctl
  <1>6. TaskFits' BY <1>1 DEF Inv, TaskFits, files, cloud
  <1>7. PageFits'
    <2>1. (Shown(task.pc))' = Shown(task.pc) BY <1>1 DEF Shown
    <2> QED BY <1>1, <2>1 DEF Inv, PageFits, OnPage, ctl
  <1>8. Picked' BY <1>1, <1>2 DEF Inv, Picked, OnPage, ctl
  <1>9. SessionDropped' BY <1>1 DEF Inv, SessionDropped, files
  <1>10. PickedByPerson' /\ DoneAgrees'
    BY <1>1, <1>2 DEF Inv, PickedByPerson, DoneAgrees, OnPage, files, cloud, ctl
  <1> QED BY <1>3, <1>4, <1>5, <1>6, <1>7, <1>8, <1>9, <1>10 DEF Inv

\* An account settles or is deleted, and stays of its project.
LEMMA SettlesInv == ASSUME Inv, NEW a \in Accounts, Settles(a) PROVE Inv'
  <1>1. /\ \/ acct[a].st = "new" /\ acct' = [acct EXCEPT ![a].st = "ready"] /\ UNCHANGED faults
           \/ acct[a].st = "ready" /\ Fault /\ acct' = [acct EXCEPT ![a].st = "deleted"]
        /\ UNCHANGED <<env, files, bound, issued, ctl, task, olds, hist, saves>>
    BY DEF Settles
  <1>2. acct \in [Accounts -> AcctType] BY DEF Inv, Typed
  <1>3. /\ acct' \in [Accounts -> AcctType]
        /\ \A b \in Accounts :
              /\ acct'[b].proj = acct[b].proj
              /\ acct[b].st # "unused" => acct'[b].st # "unused"
              /\ acct[b].st \in {"ready", "deleted"} => acct'[b].st \in {"ready", "deleted"}
              /\ acct[b].st = "deleted" => acct'[b].st = "deleted"
              /\ acct'[b].st \in {"new", "ready"} => acct[b].st \in {"new", "ready"}
    BY <1>1, <1>2 DEF AcctType
  <1>4. faults' \in Nat BY <1>1, FaultNat DEF Inv, Typed
  <1>5. pendingFile.acct \in AccountOrNone /\ keyFile \in AccountOrNone
    BY DEF Inv, Typed, PendingType
  <1>6. FilesFit'
    BY <1>1, <1>3, <1>5 DEF Inv, FilesFit, files, hist, AccountOrNone
  <1>7. OneAccount'
    <2>1. Live' \subseteq Live /\ Live \subseteq Accounts BY <1>3 DEF Live
    <2>2. OneAccount BY DEF Inv
    <2> QED BY <1>1, <1>3, <2>1, <2>2 DEF OneAccount, Unrecorded, files, hist
  <1>8. TaskFits'
    BY <1>1, <1>3, <1>5 DEF Inv, TaskFits, files, hist, AccountOrNone
  <1>9. Typed' BY <1>1, <1>3, <1>4 DEF Inv, Typed, env, files, ctl, hist
  <1>10. KeyBacked' BY <1>1 DEF Inv, KeyBacked, files, hist
  <1>11. Resting' BY <1>1 DEF Inv, Resting, env, ctl, hist
  <1>12. PageFits'
    <2>1. (Shown(task.pc))' = Shown(task.pc) BY <1>1 DEF Shown
    <2> QED BY <1>1, <2>1 DEF Inv, PageFits, OnPage, env, ctl
  <1>13. Picked' BY <1>1, SourceKept DEF ctl, hist
  <1>14. SessionDropped' BY <1>1 DEF Inv, SessionDropped, env, files
  <1>15. PickedByPerson' BY <1>1 DEF Inv, PickedByPerson, OnPage, env, hist
  <1>16. DoneAgrees'
    BY <1>1, <1>3, <1>5 DEF Inv, DoneAgrees, OnPage, env, files, ctl, AccountOrNone
  <1> QED BY <1>6, <1>7, <1>8, <1>9, <1>10, <1>11, <1>12, <1>13, <1>14, <1>15, <1>16 DEF Inv

\* Time passes for the code and the login.
LEMMA TickInv == ASSUME Inv, Tick PROVE Inv'
  <1>1. /\ task' = [task EXCEPT !.left = Minus(@, 1), !.tok = Minus(@, 1)]
        /\ sessionFile' = [sessionFile EXCEPT !.left = Minus(@, 1), !.tok = Minus(@, 1)]
        /\ UNCHANGED <<env, keyFile, pendingFile, cloud, issued, ctl, olds, hist, faults, saves>>
    BY DEF Tick
  <1>2. task \in TaskType /\ sessionFile \in SessionType BY DEF Inv, Typed
  <1>3. /\ Minus(task.left, 1) \in Life /\ Minus(task.tok, 1) \in Life
        /\ Minus(sessionFile.left, 1) \in Life /\ Minus(sessionFile.tok, 1) \in Life
    BY <1>2, MinusLife DEF TaskType, SessionType
  <1>4. /\ task' \in TaskType /\ task'.pc = task.pc /\ task'.run = task.run
        /\ task'.proj = task.proj /\ task'.acct = task.acct /\ task'.refused = task.refused
        /\ task'.result = task.result /\ task'.code = task.code
    BY <1>1, <1>2, <1>3 DEF TaskType
  <1>5. sessionFile' \in SessionType /\ sessionFile'.there = sessionFile.there
    BY <1>1, <1>2, <1>3 DEF SessionType
  <1>6. FilesFit' /\ OneAccount' /\ KeyBacked'
    BY <1>1, <1>4, Kept DEF cloud, hist, Unrecorded
  <1>7. Typed' BY <1>1, <1>4, <1>5 DEF Inv, Typed, env, cloud, ctl, hist
  <1>8. Resting'
    <2>1. task = NoTask => task' = NoTask
      <3>1. Minus(0, 1) = 0 BY ConstAssumption DEF Minus
      <3>2. task = NoTask => task.left = 0 /\ task.tok = 0 BY DEF NoTask
      <3>3. task = NoTask => task' = [task EXCEPT !.left = task.left, !.tok = task.tok]
        BY <1>1, <3>1, <3>2
      <3>4. [task EXCEPT !.left = task.left, !.tok = task.tok] = task BY <1>2 DEF TaskType
      <3> QED BY <3>3, <3>4
    <2> QED BY <1>1, <2>1 DEF Inv, Resting, env, ctl, hist
  <1>9. TaskFits' BY <1>1, <1>4 DEF Inv, TaskFits, cloud, hist
  <1>10. PageFits'
    <2>1. (Shown(task.pc))' = Shown(task.pc) BY <1>4 DEF Shown
    <2> QED BY <1>1, <1>4, <2>1 DEF Inv, PageFits, OnPage, env, ctl
  <1>11. Picked' BY <1>1, SourceKept DEF ctl, hist
  <1>12. SessionDropped' BY <1>1, <1>4, <1>5 DEF Inv, SessionDropped, env
  <1>13. PickedByPerson' /\ DoneAgrees'
    BY <1>1, <1>4 DEF Inv, PickedByPerson, DoneAgrees, OnPage, env, cloud, ctl, hist
  <1> QED BY <1>6, <1>7, <1>8, <1>9, <1>10, <1>11, <1>12, <1>13 DEF Inv

----------------------------------------------------------------------------
(* The theorems.                                                           *)

\* Nothing is paired and nothing runs.
LEMMA InitInv == Init => Inv
  <1> SUFFICES ASSUME Init PROVE Inv
    OBVIOUS
  <1>1. Typed
    <2>1. acct \in [Accounts -> AcctType] BY DEF Init, AcctType, ProjectOrNone
    <2>2. pendingFile \in PendingType /\ cache \in CacheType /\ status \in StatusType
      BY DEF Init, NoPending, PendingType, CacheType, Blank, StatusType, Phases, ProjectOrNone,
             AccountOrNone
    <2> QED BY <2>1, <2>2, NotRun, NoLogin DEF Init, Typed, ProjectOrNone, AccountOrNone
  <1>2. Resting /\ PageFits /\ Picked /\ SessionDropped /\ PickedByPerson /\ DoneAgrees
    BY DEF Init, Resting, PageFits, Picked, SessionDropped, PickedByPerson, DoneAgrees, OnPage
  <1>3. TaskFits
    BY DEF Init, NoTask, TaskFits, Login, Provisioning, Granting, Granted, Keyless
  <1>4. FilesFit /\ KeyBacked BY DEF Init, FilesFit, KeyBacked, NoPending
  <1>5. OneAccount
    <2>1. Live = {} BY DEF Init, Live
    <2> QED BY <2>1 DEF OneAccount
  <1> QED BY <1>1, <1>2, <1>3, <1>4, <1>5 DEF Inv

\* Every step of the attempt, the page, the process and the person keeps the
\* invariant.
LEMMA NextInv == Inv /\ [Next]_vars => Inv'
  <1> SUFFICES ASSUME Inv, [Next]_vars PROVE Inv'
    OBVIOUS
  <1>1. CASE Step BY <1>1, StepInv
  <1>2. CASE Controller BY <1>2, ControllerInv
  <1>3. CASE Aborted BY <1>3, OldReportsInv, OldGoneInv DEF Aborted
  <1>4. CASE Process
    BY <1>4, DownInv, StartDaemonInv, StartPageInv, StartLogInv, RepairInv, ForgetKeyInv,
       HandoverInv
    DEF Process
  <1>5. CASE World BY <1>5, SaveOptionsInv, SettlesInv, TickInv DEF World
  <1>6. CASE UNCHANGED vars
    BY <1>6, OldsShrink DEF vars, Inv, Typed
  <1> QED BY <1>1, <1>2, <1>3, <1>4, <1>5, <1>6 DEF Next

\* The invariant holds of every behaviour.
LEMMA Invariant == Spec => []Inv
  BY InitInv, NextInv, PTL DEF Spec

\* The files, the controller's Inner and the run stay within their types: no
\* lifetime is ever negative, and a run is thrown away only where the page
\* offers it.
THEOREM TypeCorrect == Spec => []TypeOK
  <1>1. Inv => TypeOK BY Types DEF Inv
  <1> QED BY <1>1, Invariant, PTL

\* Whatever stops or fails in `provision`, a project has one service account that
\* somebody still knows of, on record, with a key or being made.
THEOREM AccountKept == Spec => []OneAccount
  <1>1. Inv => OneAccount BY DEF Inv
  <1> QED BY <1>1, Invariant, PTL

\* A key on disk is of an account with a grant, or whose owner was told to give it.
THEOREM KeyGranted == Spec => []KeyBacked
  <1>1. Inv => KeyBacked BY DEF Inv
  <1> QED BY <1>1, Invariant, PTL

\* The code the page shows is the one being polled: what a run that Restart threw
\* away still reports is never applied.
THEOREM CodeIsCurrent == Spec => []CodeOnPage
  <1>1. Inv => CodeOnPage
    <2> SUFFICES ASSUME Inv, OnPage, status.phase = "Code"
                 PROVE  /\ status.code # None
                        /\ task.pc = "poll" => task.code = status.code
                        /\ task.pc \in {"poll", "device", "end"}
      BY DEF CodeOnPage
    <2>1. status.phase \in Shown(task.pc) BY DEF Inv, PageFits
    <2>2. task.pc \in {"poll", "device", "end"} BY <2>1 DEF Shown
    <2> QED BY <2>2 DEF Inv, PageFits
  <1> QED BY <1>1, Invariant, PTL

\* The person's login is off the disk once pairing has ended, and under the daemon.
THEOREM LoginRemoved == Spec => []SessionGone
  <1>1. Inv => SessionGone
    <2> SUFFICES ASSUME Inv PROVE SessionGone
      OBVIOUS
    <2>1. OnPage /\ status.phase \in {"Done", "Failed"} => task.pc = "over"
      <3>1. OnPage => status.phase \in Shown(task.pc) BY DEF Inv, PageFits
      <3> QED BY <3>1 DEF Shown
    <2> QED BY <2>1 DEF SessionGone, Inv, SessionDropped, OnPage
  <1> QED BY <1>1, Invariant, PTL

\* On the page no project is used that the person did not pick.
THEOREM ProjectPicked == Spec => []PickedByPerson
  <1>1. Inv => PickedByPerson BY DEF Inv
  <1> QED BY <1>1, Invariant, PTL

\* The page says "connected" only with a key of that project on disk.
THEOREM ConnectedIsTrue == Spec => []DoneAgrees
  <1>1. Inv => DoneAgrees BY DEF Inv
  <1> QED BY <1>1, Invariant, PTL

----------------------------------------------------------------------------
(* Pairing implements Enrollment.                                          *)

Made == {a \in Accounts : acct[a].st # "unused"}

\* The steps of a run that leave the accounts, the record and the key alone.
LEMMA RunQuiet ==
    ASSUME Begin \/ Load \/ GetCode \/ NoCode \/ Approved \/ CodeExpired \/ Denied
           \/ ListProjects \/ NoProjects \/ PollPage \/ PollOptions \/ OptionsRead
           \/ OptionsFail \/ NotChosen \/ Reuse \/ NamesTaken \/ NoEmail \/ Grant
           \/ BindingReady \/ CreateKey \/ KeyRefused \/ CallFails \/ Refused \/ Finish
    PROVE  UNCHANGED <<keyFile, pendingFile, acct>>
  <1>1. CASE Begin \/ Load \/ GetCode \/ Approved \/ CodeExpired \/ ListProjects \/ PollPage
             \/ PollOptions \/ OptionsRead \/ OptionsFail
    BY <1>1 DEF Begin, Load, GetCode, Approved, CodeExpired, ListProjects, PollPage, PollOptions,
                OptionsRead, OptionsFail, files, cloud
  <1>2. CASE Reuse \/ Grant \/ BindingReady \/ CreateKey \/ Refused \/ Finish
    BY <1>2 DEF Reuse, Grant, BindingReady, CreateKey, Refused, Finish, Fails, files, cloud
  <1>3. CASE NoCode \/ Denied \/ NoProjects \/ NotChosen \/ NamesTaken \/ NoEmail \/ KeyRefused
             \/ CallFails
    BY <1>3 DEF NoCode, Denied, NoProjects, NotChosen, NamesTaken, NoEmail, KeyRefused,
                CallFails, Fails, files, cloud
  <1> QED BY <1>1, <1>2, <1>3

\* The same for the controller, the aborted runs, and the process but for the
\* owner who pairs again.
LEMMA OthersQuiet ==
    ASSUME Controller \/ Aborted \/ Down \/ StartDaemon \/ StartPage \/ StartLog \/ Handover
           \/ (\E v \in Projects \cup {None} : SaveOptions(v)) \/ Tick \/ UNCHANGED vars
    PROVE  UNCHANGED <<keyFile, pendingFile, acct>>
  <1>1. CASE Controller \/ Aborted
    BY <1>1 DEF Controller, Start, Restart, SpawnRun, Choose, Aborted, OldReports, OldGone,
                files, cloud
  <1>2. CASE Down \/ StartDaemon \/ StartPage \/ StartLog \/ Handover
    BY <1>2 DEF Down, StartDaemon, StartPage, StartLog, Handover, files, cloud
  <1>3. CASE (\E v \in Projects \cup {None} : SaveOptions(v)) \/ Tick \/ UNCHANGED vars
    BY <1>3 DEF SaveOptions, Tick, vars, files, cloud
  <1> QED BY <1>1, <1>2, <1>3

\* What leaves the files and the account alone is no step of the enrollment.
LEMMA QuietStutters ==
    ASSUME UNCHANGED <<keyFile, pendingFile, acct>>
    PROVE  UNCHANGED Enroll!evars
  BY DEF Enroll!evars

\* Every step of pairing is a step of Enrollment or leaves it as it is.
LEMMA StepEnrolls ==
    ASSUME Inv, Inv', [Next]_vars
    PROVE  [Enroll!ENext]_(Enroll!evars)
  <1>1. CASE Create
    <2> DEFINE new == CHOOSE b \in Accounts : acct[b].st = "unused"
    <2>1. new \in Accounts /\ acct[new].st = "unused" BY <1>1 DEF Create
    <2>2. /\ acct' = [acct EXCEPT ![new] = [st |-> "new", proj |-> task.proj]]
          /\ UNCHANGED <<keyFile, pendingFile>>
      BY <1>1 DEF Create, files
    <2> HIDE DEF new
    <2>3. PICK a \in Accounts : a = new BY <2>1
    <2>4. a \notin Made /\ Made' = Made \cup {a}
      BY <2>1, <2>2, <2>3 DEF Made, Inv, Typed
    <2>5. Enroll!Make(a) BY <2>2, <2>4 DEF Enroll!Make, Made
    <2> QED BY <2>5 DEF Enroll!ENext
  <1>2. CASE Record
    <2>1. task.pc = "email" /\ task.acct \in Made /\ task.acct \in Accounts /\ keyFile = None
      BY <1>2 DEF Record, At, Inv, TaskFits, Keyless, Made
    <2>2. pendingFile'.acct = task.acct /\ UNCHANGED <<keyFile, acct>>
      BY <1>2 DEF Record, cloud
    <2>3. Enroll!Hold(task.acct) BY <2>1, <2>2 DEF Enroll!Hold, Made
    <2> QED BY <2>1, <2>3 DEF Enroll!ENext
  <1>3. CASE Forbidden
    <2>1. task.pc \in Granting BY <1>3 DEF Forbidden, At, Granting
    <2>2. pendingFile'.acct = pendingFile.acct /\ UNCHANGED <<keyFile, acct>>
      BY <1>3, <2>1, GrantingFits DEF Forbidden, cloud
    <2> QED BY <2>2 DEF Enroll!evars
  <1>4. CASE WriteKey
    <2>1. task.pc \in Granting /\ task.pc # "written" BY <1>4 DEF WriteKey, At, Granting
    <2>2. UNCHANGED <<pendingFile, acct>> /\ (keyFile' = task.acct \/ UNCHANGED keyFile)
      BY <1>4 DEF WriteKey, cloud
    <2>3. pendingFile.acct = task.acct /\ task.acct # None /\ keyFile = None
      BY <2>1, GrantingFits, ConstAssumption
    <2>4. CASE keyFile' = task.acct
      <3>1. Enroll!Publish BY <2>2, <2>3, <2>4 DEF Enroll!Publish
      <3> QED BY <3>1 DEF Enroll!ENext
    <2>5. CASE UNCHANGED keyFile BY <2>2, <2>5, QuietStutters
    <2> QED BY <2>2, <2>4, <2>5
  <1>5. CASE DropPending
    <2>1. task.pc \in Granting /\ keyFile = task.acct
      BY <1>5 DEF DropPending, At, Granting, Inv, TaskFits
    <2>2. pendingFile'.acct = None /\ UNCHANGED <<keyFile, acct>>
      BY <1>5 DEF DropPending, NoPending, cloud
    <2>3. keyFile # None /\ pendingFile.acct = keyFile
      BY <2>1, GrantingFits, ConstAssumption
    <2>4. Enroll!Settle BY <2>2, <2>3 DEF Enroll!Settle
    <2> QED BY <2>4 DEF Enroll!ENext
  <1>6. CASE Repair \/ ForgetKey
    <2>1. keyFile' = None /\ pendingFile'.acct \in {pendingFile.acct, None} /\ UNCHANGED acct
      BY <1>6 DEF Repair, ForgetKey, NoPending, cloud
    <2>2. Enroll!Forget BY <2>1 DEF Enroll!Forget
    <2> QED BY <2>2 DEF Enroll!ENext
  <1>7. CASE \E a \in Accounts : Settles(a)
    <2>1. PICK a \in Accounts : Settles(a) BY <1>7
    <2>2. /\ UNCHANGED <<keyFile, pendingFile>> /\ acct[a].st # "unused"
          /\ \E st \in {"ready", "deleted"} : acct' = [acct EXCEPT ![a].st = st]
      BY <2>1 DEF Settles, files
    <2>3. acct \in [Accounts -> AcctType] BY DEF Inv, Typed
    <2>4. Made' = Made BY <2>2, <2>3 DEF Made, AcctType
    <2> QED BY <2>2, <2>4 DEF Enroll!evars, Made
  <1>8. CASE ~(Create \/ Record \/ Forbidden \/ WriteKey \/ DropPending \/ Repair \/ ForgetKey
               \/ \E a \in Accounts : Settles(a))
    <2>1. UNCHANGED <<keyFile, pendingFile, acct>>
      BY <1>8, RunQuiet, OthersQuiet DEF Next, Step, Process, World
    <2> QED BY <2>1, QuietStutters
  <1> QED BY <1>1, <1>2, <1>3, <1>4, <1>5, <1>6, <1>7, <1>8

\* Through every crash, refusal and retry pairing does what Enrollment promises:
\* accounts are made once, one is held on record, and the key that appears is the
\* key of that account and is never replaced, only forgotten.
THEOREM PairingEnrolls == Spec => Enrolls
  <1>1. Init => Enroll!EInit
    BY DEF Init, Enroll!EInit, NoPending
  <1>2. Inv /\ Inv' /\ [Next]_vars => [Enroll!ENext]_(Enroll!evars)
    BY StepEnrolls
  <1> QED BY <1>1, <1>2, Invariant, PTL DEF Spec, Enrolls, Enroll!ESpec
=============================================================================
