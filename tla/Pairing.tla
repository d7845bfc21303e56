------------------------------ MODULE Pairing ------------------------------
(***************************************************************************)
(* Pairing an add-on with Datum (pairing.rs), driven from the setup page   *)
(* (pairing_setup.rs) or, when the page cannot be served, from the log     *)
(* (`pair` in the daemon's main.rs), and started again and again by the    *)
(* add-on's run.sh.  A run gets a login by device code or from the session *)
(* file, has a project chosen, and makes a service account, its grant and  *)
(* its key.  Three files outlive the process: the key, the pending record  *)
(* and the session.                                                        *)
(***************************************************************************)
EXTENDS Integers, FiniteSets

CONSTANTS
    Accounts,       \* service accounts that may be made
    Listed,         \* projects the approving person sees
    Unlisted,       \* project ids they may type that are not theirs
    None, Forever,  \* nothing; a token whose lifetime is not known
    TokenLives,     \* lifetimes a token may be issued with, in ticks
    Margin,         \* TOKEN_MARGIN_TICKS
    SessionMax,     \* SESSION_MAX_TICKS
    WaitMax,        \* ProjectWait::max
    MaxCodes, MaxRuns, MaxFaults, MaxSaves

Projects == Listed \cup Unlisted
Life     == Nat \cup {Forever}

ASSUME ConstAssumption ==
    /\ Margin \in Nat /\ SessionMax \in Nat /\ WaitMax \in Nat
    /\ MaxCodes \in Nat /\ MaxRuns \in Nat /\ MaxFaults \in Nat /\ MaxSaves \in Nat
    /\ TokenLives \subseteq Life
    /\ Forever \notin Nat
    /\ None \notin Accounts \cup Projects \cup Nat
    /\ IsFiniteSet(Listed) /\ Listed # {} /\ Listed \cap Unlisted = {}

VARIABLES
    proc,           \* "down", "setup" or "daemon": what run.sh runs
    mode,           \* "page" (SetupController) or "log" (`pair`)
    opt,            \* `project` as saved in the add-on's options
    initial,        \* the `project` the process was started with
    keyFile,        \* account of the key at key_out, or None
    pendingFile,    \* <key_out>.pending
    sessionFile,    \* the saved login
    acct,           \* Datum's service accounts: state and project
    bound,          \* accounts with a policy binding
    issued,         \* device codes issued so far; a code is its number
    run,            \* Inner.run
    status,         \* Inner.status
    page,           \* PageSource.page
    cache,          \* PageSource.last_fallback
    task,           \* the current run
    olds,           \* aborted runs that have not reached their next await
    picks,          \* projects picked by the person since the process started
    told,           \* accounts reported as needing a grant by an owner
    lost,           \* accounts no file and no run knows of any more
    faults, saves   \* stops, failures and saves so far

files == <<keyFile, pendingFile, sessionFile>>
cloud == <<acct, bound>>
ctl   == <<run, status, page, cache>>
hist  == <<picks, told, lost>>
env   == <<proc, mode, opt, initial>>
vars  == <<env, files, cloud, issued, ctl, task, olds, hist, faults, saves>>

NoSession == [left |-> 0, tok |-> 0, there |-> FALSE]
NoPending == [acct |-> None, proj |-> None, refused |-> FALSE]

\* `prev` the run waited for, `tok` and `left` the ticks the login and the wait
\* for a project have left, `seen` the value already judged.
NoTask == [pc |-> "none", run |-> 0, prev |-> 0, code |-> None, tok |-> 0,
           reused |-> FALSE, left |-> 0, seen |-> None, proj |-> None,
           acct |-> None, refused |-> FALSE, result |-> "none"]

\* SetupStatus, what the page shows.
Blank == [phase |-> "Idle", code |-> None, project |-> None,
          error |-> "none"]

Running(s) == s.phase \in {"Starting", "Code", "Approved", "Choose", "Working"}

Errors == {"Denied", "TimedOut", "ProjectNotChosen", "BindingForbidden",
           "KeyExists", "Project", "Failed"}

\* error_view: the kind of error the page shows.
ErrorView(e) ==
    CASE e \in {"TimedOut", "ProjectNotChosen"} -> "expired"
      [] e = "Denied"                           -> "denied"
      [] e = "BindingForbidden"                 -> "forbidden"
      [] e \in {"KeyExists", "Project", "Failed"} -> "failed"

Least(x, y) == IF x = Forever \/ (y # Forever /\ y <= x) THEN y ELSE x

\* Mutant: plain subtraction where the code saturates.
MinusPlain(x, n) == IF x = Forever THEN Forever ELSE x - n

Minus(x, n) == IF x = Forever THEN Forever ELSE IF x <= n THEN 0 ELSE x - n

At(pc) == proc = "setup" /\ task.pc = pc

----------------------------------------------------------------------------
(* The controller records what a run reports only while it is current.     *)

\* Mutant: the run number is not checked.
ApplyAny(r, s) == status' = IF mode = "page" THEN s ELSE status

Apply(r, s) == status' = IF mode = "page" /\ r = run THEN s ELSE status

Go(t) == task' = t
Fault == faults < MaxFaults /\ faults' = faults + 1

\* pair_inner is left with `e`; pair still has to drop the session.
EndWith(t, e) == [NoTask EXCEPT !.pc = "end", !.run = t.run, !.proj = t.proj, !.result = e]

\* An account the run made and no file names yet.
Unrecorded == IF task.pc = "email" THEN {task.acct} ELSE {}

Fails(e) ==
    /\ Go(EndWith(task, e))
    /\ lost' = lost \cup Unrecorded
    /\ UNCHANGED <<env, files, cloud, issued, ctl, olds, picks, told, saves>>

\* Api::call: the call fails, or is refused (HTTP 401) because the token has
\* expired or was revoked, which may be at any time.  A refused saved login is
\* dropped and answered with a new approval.
CallFails ==
    /\ proc = "setup"
    /\ task.pc \in {"list", "reuse", "create", "email", "grant", "ready", "key"}
    /\ Fault /\ Fails("Failed")

Refused ==
    /\ proc = "setup"
    /\ task.pc \in {"list", "reuse", "create", "email", "grant", "ready", "key"}
    /\ IF task.reused
       THEN /\ sessionFile' = NoSession
            /\ Go([NoTask EXCEPT !.pc = "device", !.run = task.run])
            /\ lost' = lost \cup Unrecorded
            /\ UNCHANGED <<env, keyFile, pendingFile, cloud, issued, ctl, olds, picks,
                           told, saves>>
       ELSE Fails("Failed")
    /\ UNCHANGED faults

\* Mutant: the session is kept when the run ends.
FinishKeepsSession ==
    /\ At("end")
    /\ Apply(task.run,
             IF task.result = "Ok"
             THEN [status EXCEPT !.phase = "Done", !.project = task.proj, !.error = "none"]
             ELSE [status EXCEPT !.phase = "Failed", !.code = None,
                                 !.error = ErrorView(task.result)])
    /\ Go([NoTask EXCEPT !.pc = "over",
                         !.result = IF task.result = "Ok" THEN "Ok" ELSE "none"])
    /\ UNCHANGED <<env, files, cloud, issued, run, page, cache, olds, hist, faults, saves>>

\* remove_session, then Inner::finish.
Finish ==
    /\ At("end")
    /\ sessionFile' = NoSession
    /\ Apply(task.run,
             IF task.result = "Ok"
             THEN [status EXCEPT !.phase = "Done", !.project = task.proj, !.error = "none"]
             ELSE [status EXCEPT !.phase = "Failed", !.code = None,
                                 !.error = ErrorView(task.result)])
    /\ Go([NoTask EXCEPT !.pc = "over",
                         !.result = IF task.result = "Ok" THEN "Ok" ELSE "none"])
    /\ UNCHANGED <<env, keyFile, pendingFile, cloud, issued, run, page, cache, olds, hist,
                   faults, saves>>

----------------------------------------------------------------------------
(* provision: the project.                                                 *)

\* Mutant: the record is taken up whichever project it is of.
SelectedAny(t, p) == [t EXCEPT !.proj = p, !.tok = 0, !.left = 0, !.seen = None,
    !.pc = IF pendingFile # NoPending THEN "reuse" ELSE "create"]

\* ProjectSelected, and Pending::load for that project.
Selected(t, p) == [t EXCEPT !.proj = p, !.tok = 0, !.left = 0, !.seen = None,
    !.pc = IF pendingFile # NoPending /\ pendingFile.proj = p THEN "reuse" ELSE "create"]

Choosing(s) == IF s.phase = "Working" THEN s ELSE [s EXCEPT !.phase = "Choose"]

\* wait_for_project may last until the margin before the token's expiry.
WaitTime(tok) == Least(WaitMax, Minus(tok, Margin))

\* save_session: no session when nothing would be left of it.  Best effort: a
\* write that fails is only logged.
SaveSession(t) ==
    LET left == Least(SessionMax, Minus(t.tok, Margin))
    IN  \/ sessionFile' = sessionFile
        \/ /\ ~t.reused /\ left > 0
           /\ sessionFile' = [left |-> left, tok |-> t.tok, there |-> TRUE]

\* choose_project: the configured project, or the only one.
ChooseProject(wanted) ==
    IF wanted # None THEN {wanted} \cap Listed
    ELSE IF Cardinality(Listed) = 1 THEN Listed ELSE {}

\* provision up to its next await, with `s` the page before it.  The page has
\* every choice confirmed; the log takes the configured one.
Provision(t, s) ==
    LET chosen == IF mode = "page" THEN {} ELSE ChooseProject(initial)
    IN  \/ /\ chosen = {}
           /\ Go([t EXCEPT !.pc = "wait", !.left = WaitTime(t.tok),
                           !.seen = IF mode = "page" THEN None ELSE initial])
           /\ SaveSession(t)
           /\ Apply(t.run, Choosing(s))
        \/ \E p \in chosen :
              /\ Go(Selected(t, p))
              /\ Apply(t.run, [s EXCEPT !.phase = "Working", !.project = p])
              /\ UNCHANGED sessionFile

\* A value of the project source, judged against the last one.
Judge(cur) ==
    IF cur # task.seen /\ cur \in Listed
    THEN /\ Go(Selected(task, cur))
         /\ Apply(task.run, [status EXCEPT !.phase = "Working", !.project = cur])
    ELSE /\ Go([task EXCEPT !.pc = "wait", !.seen = cur])
         /\ Apply(task.run, IF cur = task.seen THEN status ELSE Choosing(status))

\* Mutant: the suggestion counts as a choice.
FallbackAny(v) == v

\* PageSource: a saved value counts once it differs from the suggestion.
Fallback(v) == IF v = initial THEN None ELSE v

PollPage ==
    /\ At("wait") /\ task.left > 0 /\ mode = "page"
    /\ \/ page # None /\ Judge(page)
       \/ page = None /\ cache.there /\ Judge(Fallback(cache.value))
    /\ UNCHANGED <<env, files, cloud, issued, run, page, cache, olds, hist, faults, saves>>

PollOptions ==
    /\ At("wait") /\ task.left > 0
    /\ mode = "page" => page = None
    /\ Go([task EXCEPT !.pc = "read"])
    /\ UNCHANGED <<env, files, cloud, issued, ctl, olds, hist, faults, saves>>

\* The Supervisor answers; the page's source remembers the answer.
OptionsRead ==
    /\ At("read")
    /\ IF mode = "page"
       THEN Judge(Fallback(opt)) /\ cache' = [there |-> TRUE, value |-> opt]
       ELSE Judge(opt) /\ UNCHANGED cache
    /\ UNCHANGED <<env, files, cloud, issued, run, page, olds, hist, faults, saves>>

\* An error counts as nothing set for the page, and is asked again by the log.
OptionsFail ==
    /\ At("read") /\ Fault
    /\ IF mode = "page"
       THEN Judge(None) /\ cache' = [there |-> TRUE, value |-> None]
       ELSE Go([task EXCEPT !.pc = "wait"]) /\ UNCHANGED <<status, cache>>
    /\ UNCHANGED <<env, files, cloud, issued, run, page, olds, hist, saves>>

\* Mutant: every poll starts the wait anew.
NotChosenAgain ==
    /\ At("wait") /\ task.left = 0
    /\ Go([task EXCEPT !.left = WaitMax])
    /\ UNCHANGED <<env, files, cloud, issued, ctl, olds, hist, faults, saves>>

NotChosen == At("wait") /\ task.left = 0 /\ Fails("ProjectNotChosen") /\ UNCHANGED faults

----------------------------------------------------------------------------
(* The login: from the session file, or by device code.                    *)

\* The new run starts once the one it replaced is gone.
Begin ==
    /\ At("await")
    /\ \A o \in olds : o.run # task.prev
    /\ Go([task EXCEPT !.pc = "load"])
    /\ UNCHANGED <<env, files, cloud, issued, ctl, olds, hist, faults, saves>>

\* load_session: a file that is there, whole and not expired.
SessionReady == sessionFile.there /\ sessionFile.left > 0

Load ==
    /\ At("load")
    /\ \/ /\ keyFile # None
          /\ Go(EndWith(task, "KeyExists")) /\ UNCHANGED <<status, sessionFile>>
       \/ /\ keyFile = None /\ ~SessionReady
          /\ sessionFile' = NoSession
          /\ Go([task EXCEPT !.pc = "device"]) /\ UNCHANGED status
       \/ /\ keyFile = None /\ SessionReady
          /\ Provision([task EXCEPT !.tok = sessionFile.tok, !.reused = TRUE],
                       [status EXCEPT !.phase = "Approved", !.code = None])
    /\ UNCHANGED <<env, keyFile, pendingFile, cloud, issued, run, page, cache, olds, hist,
                   faults, saves>>

\* start_device_authorization.
GetCode ==
    /\ At("device")
    /\ issued < MaxCodes /\ issued' = issued + 1
    /\ Go([task EXCEPT !.pc = "poll", !.code = issued'])
    /\ Apply(task.run, [status EXCEPT !.phase = "Code", !.code = issued'])
    /\ UNCHANGED <<env, files, cloud, run, page, cache, olds, hist, faults, saves>>

\* The service cannot be reached or refuses, or max_wait is over.
NoCode ==
    \/ At("device") /\ Fails("TimedOut") /\ UNCHANGED faults
    \/ (At("device") \/ At("poll")) /\ Fault /\ Fails("Failed")

\* poll_for_approval: the person approves the code, and who they are is known.
Approved ==
    /\ At("poll")
    /\ \E life \in TokenLives : Go([task EXCEPT !.pc = "list", !.tok = life, !.code = None])
    /\ Apply(task.run, [status EXCEPT !.phase = "Approved", !.code = None])
    /\ UNCHANGED <<env, files, cloud, issued, run, page, cache, olds, hist, faults, saves>>

\* The code is no longer good: another one, unless max_wait is over.
CodeExpired ==
    /\ At("poll")
    /\ Go([task EXCEPT !.pc = "device", !.code = None])
    /\ UNCHANGED <<env, files, cloud, issued, ctl, olds, hist, faults, saves>>

Denied == At("poll") /\ Fails("Denied") /\ UNCHANGED faults

ListProjects ==
    /\ At("list")
    /\ Provision(task, status)
    /\ UNCHANGED <<env, keyFile, pendingFile, cloud, issued, run, page, cache, olds, hist,
                   faults, saves>>

\* The login sees no project at all.
NoProjects == At("list") /\ Fault /\ Fails("Project")

----------------------------------------------------------------------------
(* provision: the account, its grant and its key.                          *)

Worked(t) == Go(t) /\ Apply(t.run, [status EXCEPT !.phase = "Working"])

\* get_service_account for the pending record; it is saved again as it was.
Reuse ==
    /\ At("reuse")
    /\ LET a == pendingFile.acct
       IN  IF acct[a].st = "ready"
           THEN Worked([task EXCEPT !.pc = "grant", !.acct = a,
                                    !.refused = pendingFile.refused])
           ELSE Go([task EXCEPT !.pc = "create"]) /\ UNCHANGED status
    /\ UNCHANGED <<env, files, cloud, issued, run, page, cache, olds, hist, faults, saves>>

\* create_service_account; the reply may be lost.
Create ==
    /\ At("create")
    /\ \E b \in Accounts : acct[b].st = "unused"
    /\ LET a == CHOOSE b \in Accounts : acct[b].st = "unused" IN
        /\ acct' = [acct EXCEPT ![a] = [st |-> "new", proj |-> task.proj]]
        /\ \/ /\ Go([task EXCEPT !.pc = "email", !.acct = a])
              /\ UNCHANGED <<lost, faults>>
           \/ /\ Fault /\ Go(EndWith(task, "Failed"))
              /\ lost' = lost \cup {a}
    /\ UNCHANGED <<env, files, bound, issued, ctl, olds, picks, told, saves>>

\* Three random names in a row were taken.
NamesTaken ==
    /\ At("create") /\ \A a \in Accounts : acct[a].st # "unused"
    /\ Fails("Failed") /\ UNCHANGED faults

\* Mutant: the record is only written when the grant is refused.
RecordLate ==
    /\ At("email") /\ acct[task.acct].st = "ready"
    /\ Worked([task EXCEPT !.pc = "grant", !.refused = FALSE])
    /\ UNCHANGED <<env, files, cloud, issued, run, page, cache, olds, hist, faults, saves>>

\* The account has its email: it is put on record, in place of any other.
Record ==
    /\ At("email") /\ acct[task.acct].st = "ready"
    /\ pendingFile' = [acct |-> task.acct, proj |-> task.proj, refused |-> FALSE]
    /\ lost' = lost \cup ({pendingFile.acct} \ {None})
    /\ Worked([task EXCEPT !.pc = "grant", !.refused = FALSE])
    /\ UNCHANGED <<env, keyFile, sessionFile, cloud, issued, run, page, cache, olds, picks,
                   told, faults, saves>>

\* No email within SETTLE_TICKS.
NoEmail ==
    /\ At("email") /\ acct[task.acct].st # "ready" /\ Fails("Failed") /\ UNCHANGED faults

\* grant_access: made, or there already.
Grant ==
    /\ At("grant")
    /\ bound' = bound \cup {task.acct}
    /\ Go([task EXCEPT !.pc = "ready"])
    /\ UNCHANGED <<env, files, acct, issued, ctl, olds, hist, faults, saves>>

\* Mutant: a refused grant does not stop the run.
ForbiddenIgnored ==
    /\ At("grant")
    /\ Worked([task EXCEPT !.pc = "key"])
    /\ UNCHANGED <<env, files, cloud, issued, run, page, cache, olds, hist, faults, saves>>

\* The person may not grant.  The first time that ends the run, with the refusal
\* on record; after one, an owner is taken to have granted access since.
Forbidden ==
    /\ At("grant")
    /\ IF task.refused
       THEN /\ Worked([task EXCEPT !.pc = "key"])
            /\ UNCHANGED <<pendingFile, told>>
       ELSE /\ pendingFile' = [acct |-> task.acct, proj |-> task.proj, refused |-> TRUE]
            /\ told' = told \cup {task.acct}
            /\ Go(EndWith(task, "BindingForbidden")) /\ UNCHANGED status
    /\ UNCHANGED <<env, keyFile, sessionFile, cloud, issued, run, page, cache, olds, picks,
                   lost, faults, saves>>

BindingReady ==
    /\ At("ready")
    /\ Worked([task EXCEPT !.pc = "key"])
    /\ UNCHANGED <<env, files, cloud, issued, run, page, cache, olds, hist, faults, saves>>

\* create_key: the server makes the key and returns it once.
CreateKey ==
    /\ At("key")
    /\ acct[task.acct].st = "ready"
    /\ \/ Go([task EXCEPT !.pc = "keyed"]) /\ UNCHANGED faults
       \/ Fault /\ Go(EndWith(task, "Failed"))
    /\ UNCHANGED <<env, files, cloud, issued, ctl, olds, hist, saves>>

\* The account was deleted meanwhile, so there is no key for it.
KeyRefused ==
    /\ At("key") /\ acct[task.acct].st # "ready" /\ Fails("Failed") /\ UNCHANGED faults

\* Mutant: the record is dropped before the key is written.
WriteKeyLate ==
    /\ At("keyed")
    /\ \/ pendingFile # NoPending /\ pendingFile' = NoPending /\ UNCHANGED <<keyFile, task>>
       \/ /\ pendingFile = NoPending /\ keyFile' = task.acct
          /\ Go([task EXCEPT !.pc = "written"]) /\ UNCHANGED pendingFile
    /\ UNCHANGED <<env, sessionFile, cloud, issued, ctl, olds, hist, faults, saves>>

\* write_private_file, which renames a complete file into place.
WriteKey ==
    /\ At("keyed")
    /\ \/ /\ keyFile' = task.acct
          /\ Go([task EXCEPT !.pc = "written"])
          /\ UNCHANGED faults
       \/ Fault /\ Go(EndWith(task, "Failed")) /\ UNCHANGED keyFile
    /\ UNCHANGED <<env, pendingFile, sessionFile, cloud, issued, ctl, olds, hist, saves>>

DropPending ==
    /\ At("written")
    /\ pendingFile' = NoPending
    /\ Worked(EndWith(task, "Ok"))
    /\ UNCHANGED <<env, keyFile, sessionFile, cloud, issued, run, page, cache, olds, hist,
                   faults, saves>>

----------------------------------------------------------------------------
(* SetupController.                                                        *)

\* spawn_run: aborts the run that is going, which stops at its next await.
SpawnRun ==
    /\ run < MaxRuns
    /\ run' = run + 1
    /\ status' = [Blank EXCEPT !.phase = "Starting"]
    /\ page' = None
    /\ olds' = IF task.pc \in {"none", "over"} THEN olds
               ELSE olds \cup {[run |-> task.run, pc |-> task.pc]}
    /\ Go([NoTask EXCEPT !.pc = "await", !.run = run + 1, !.prev = task.run])
    /\ UNCHANGED <<env, files, cloud, issued, cache, hist, faults, saves>>

OnPage == proc = "setup" /\ mode = "page"

Start == OnPage /\ ~Running(status) /\ status.phase # "Done" /\ SpawnRun

Restart == OnPage /\ status.phase \in {"Starting", "Code"} /\ SpawnRun

Choose(p) ==
    /\ OnPage /\ status.phase = "Choose" /\ p \in Listed
    /\ page' = p
    /\ status' = [status EXCEPT !.phase = "Working", !.project = p]
    /\ picks' = picks \cup {p}
    /\ UNCHANGED <<env, files, cloud, issued, run, cache, task, olds, told, lost, faults, saves>>

\* What an aborted run still reports before its next await.
OldReports(o) ==
    /\ proc = "setup"
    /\ \/ /\ o.pc = "device"
          /\ issued < MaxCodes /\ issued' = issued + 1
          /\ Apply(o.run, [status EXCEPT !.phase = "Code", !.code = issued'])
       \/ /\ o.pc = "poll" /\ UNCHANGED issued
          /\ Apply(o.run, [status EXCEPT !.phase = "Approved", !.code = None])
    /\ olds' = olds \ {o}
    /\ UNCHANGED <<env, files, cloud, run, page, cache, task, hist, faults, saves>>

OldGone(o) ==
    /\ proc = "setup"
    /\ olds' = olds \ {o}
    /\ UNCHANGED <<env, files, cloud, issued, ctl, task, hist, faults, saves>>

----------------------------------------------------------------------------
(* The process: run.sh, `setup` and `pair`, and everything in memory lost. *)

MemoryLost ==
    /\ task' = NoTask /\ olds' = {} /\ picks' = {} /\ initial' = None
    /\ run' = 0 /\ status' = Blank /\ page' = None
    /\ cache' = [there |-> FALSE, value |-> None]

\* The add-on is stopped or dies.
Down ==
    /\ proc # "down" /\ Fault
    /\ proc' = "down"
    /\ lost' = lost \cup Unrecorded
    /\ MemoryLost
    /\ UNCHANGED <<mode, opt, files, cloud, issued, told, saves>>

\* A key: the daemon, unless the options name another project.
StartDaemon ==
    /\ proc = "down" /\ keyFile # None
    /\ sessionFile' = NoSession
    /\ proc' = IF opt \in {None, acct[keyFile].proj} THEN "daemon" ELSE "down"
    /\ UNCHANGED <<mode, opt, initial, keyFile, pendingFile, cloud, issued, ctl, task, olds, hist,
                   faults, saves>>

\* No key: `setup` serves the page, and carries on with a saved login at once.
StartPage ==
    /\ proc = "down" /\ keyFile = None
    /\ proc' = "setup" /\ mode' = "page" /\ initial' = opt
    /\ IF sessionFile.there
       THEN /\ run' = 1 /\ status' = [Blank EXCEPT !.phase = "Starting"]
            /\ Go([NoTask EXCEPT !.pc = "await", !.run = 1])
       ELSE UNCHANGED <<run, status, task>>
    /\ UNCHANGED <<opt, files, cloud, issued, page, cache, olds, hist, faults, saves>>

\* No key, and the page cannot be served: `pair`.
StartLog ==
    /\ proc = "down" /\ keyFile = None
    /\ proc' = "setup" /\ mode' = "log" /\ initial' = opt
    /\ Go([NoTask EXCEPT !.pc = "load"])
    /\ UNCHANGED <<opt, files, cloud, issued, ctl, olds, hist, faults, saves>>

\* The `repair` option: the paired key and the record are deleted first.
Repair ==
    /\ proc = "down" /\ keyFile # None
    /\ keyFile' = None /\ pendingFile' = NoPending
    /\ lost' = lost \cup ({keyFile, pendingFile.acct} \ {None})
    /\ UNCHANGED <<env, sessionFile, cloud, issued, ctl, task, olds, picks, told, faults, saves>>

\* Re-pair and Unpair on the page (forget_inner) delete the key and then, if
\* they get that far, the record, and have the add-on restarted, which may fail.
ForgetKey ==
    /\ proc = "daemon" /\ keyFile # None
    /\ keyFile' = None /\ pendingFile' \in {NoPending, pendingFile}
    /\ lost' = lost \cup ({keyFile, pendingFile.acct} \ {None, pendingFile'.acct})
    /\ proc' \in {"daemon", "down"}
    /\ UNCHANGED <<mode, opt, initial, sessionFile, cloud, issued, ctl, task, olds, picks, told,
                   faults, saves>>

\* The process ends: with a key run.sh goes on to the daemon; a failed `pair`
\* stops the add-on, a failed run on the page waits for the next click.
Handover ==
    /\ At("over")
    /\ \/ task.result = "Ok" /\ proc' = "daemon"
       \/ task.result # "Ok" /\ mode = "log" /\ proc' = "down"
    /\ sessionFile' = IF task.result = "Ok" THEN NoSession ELSE sessionFile
    /\ MemoryLost
    /\ UNCHANGED <<mode, opt, keyFile, pendingFile, cloud, issued, told, lost, faults, saves>>

----------------------------------------------------------------------------
(* The person, Datum and time.                                             *)

\* The person saves the options while pairing waits for a project, or while
\* it is not running: between those nothing reads them.
SaveOptions(v) ==
    /\ proc # "setup" \/ task.pc \in {"wait", "read"}
    /\ opt # v /\ opt' = v
    /\ saves < MaxSaves /\ saves' = saves + 1
    /\ picks' = IF proc = "setup" THEN picks \cup {v} ELSE picks
    /\ UNCHANGED <<proc, mode, initial, files, cloud, issued, ctl, task, olds, told, lost, faults>>

\* Datum fills in the account's email; its owner deletes it in the portal.
Settles(a) ==
    /\ \/ acct[a].st = "new" /\ acct' = [acct EXCEPT ![a].st = "ready"] /\ UNCHANGED faults
       \/ acct[a].st = "ready" /\ Fault /\ acct' = [acct EXCEPT ![a].st = "deleted"]
    /\ UNCHANGED <<env, files, bound, issued, ctl, task, olds, hist, saves>>

\* A tick is longer than a read of the options may take (HTTP_TIMEOUT).
Tick ==
    /\ task.pc # "read"
    /\ task' = [task EXCEPT !.left = Minus(@, 1), !.tok = Minus(@, 1)]
    /\ sessionFile' = [sessionFile EXCEPT !.left = Minus(@, 1), !.tok = Minus(@, 1)]
    /\ UNCHANGED <<env, keyFile, pendingFile, cloud, issued, ctl, olds, hist, faults, saves>>

----------------------------------------------------------------------------

Init ==
    /\ proc = "down" /\ mode = "page" /\ initial = None
    /\ opt = None
    /\ keyFile = None /\ pendingFile = NoPending /\ sessionFile = NoSession
    /\ acct = [a \in Accounts |-> [st |-> "unused", proj |-> None]]
    /\ bound = {}
    /\ issued = 0
    /\ run = 0 /\ status = Blank /\ page = None
    /\ cache = [there |-> FALSE, value |-> None]
    /\ task = NoTask /\ olds = {}
    /\ picks = {} /\ told = {} /\ lost = {}
    /\ faults = 0 /\ saves = 0

\* The steps of a run, which the runtime takes as soon as it can.
Step ==
    \/ Begin \/ Load \/ GetCode \/ NoCode \/ Approved \/ CodeExpired \/ Denied
    \/ ListProjects \/ NoProjects \/ PollPage \/ PollOptions \/ OptionsRead
    \/ OptionsFail \/ NotChosen \/ Reuse \/ Create \/ NamesTaken \/ Record \/ NoEmail \/ Grant
    \/ Forbidden \/ BindingReady \/ CreateKey \/ KeyRefused \/ WriteKey
    \/ DropPending \/ CallFails \/ Refused \/ Finish

Controller == Start \/ Restart \/ \E p \in Listed : Choose(p)

Aborted == \E o \in olds : OldReports(o) \/ OldGone(o)

Process == Down \/ StartDaemon \/ StartPage \/ StartLog \/ Repair \/ ForgetKey \/ Handover

World ==
    \/ \E v \in Projects \cup {None} : SaveOptions(v)
    \/ \E a \in Accounts : Settles(a)
    \/ Tick

Next == Step \/ Controller \/ Aborted \/ Process \/ World

Spec == Init /\ [][Next]_vars

\* The runtime goes on with a run that can go on or drops one that was aborted,
\* and time passes although it stands still during a read of the options.
FairSpec == Spec /\ WF_vars(Step \/ Aborted) /\ SF_vars(Tick)

----------------------------------------------------------------------------
(* Properties.                                                             *)

\* The files, the controller's Inner and the run stay within their types; the
\* times left of a login never go below zero (saturating_sub, TOKEN_MARGIN_TICKS).
TypeOK ==
    /\ proc \in {"down", "setup", "daemon"} /\ mode \in {"page", "log"}
    /\ opt \in Projects \cup {None} /\ initial \in Projects \cup {None}
    /\ keyFile \in Accounts \cup {None}
    /\ pendingFile \in [acct : Accounts \cup {None}, proj : Projects \cup {None},
                        refused : BOOLEAN]
    /\ sessionFile \in [left : Life, tok : Life, there : BOOLEAN]
    /\ acct \in [Accounts -> [st : {"unused", "new", "ready", "deleted"},
                              proj : Projects \cup {None}]]
    /\ bound \subseteq Accounts
    /\ issued \in Nat
    /\ run \in Nat
    /\ status \in [phase : {"Idle", "Starting", "Code", "Approved", "Choose", "Working",
                            "Done", "Failed"},
                   code : Nat \cup {None}, project : Projects \cup {None},
                   error : {"none", "expired", "denied", "forbidden", "failed"}]
    /\ page \in Listed \cup {None}
    /\ cache \in [there : BOOLEAN, value : Projects \cup {None}]
    /\ task \in [pc : {"none", "await", "load", "device", "poll", "list", "wait", "read",
                       "reuse", "create", "email", "grant", "ready", "key", "keyed",
                       "written", "end", "over"},
                 run : Nat, prev : Nat, code : Nat \cup {None}, tok : Life,
                 reused : BOOLEAN, left : Life, seen : Projects \cup {None},
                 proj : Projects \cup {None}, acct : Accounts \cup {None},
                 refused : BOOLEAN, result : Errors \cup {"none", "Ok"}]
    /\ olds \subseteq [run : Nat, pc : {"await", "load", "device", "poll", "end"}]
    /\ picks \subseteq Projects \cup {None}
    /\ told \subseteq Accounts /\ lost \subseteq Accounts
    /\ faults \in Nat /\ saves \in Nat

Live == {a \in Accounts : acct[a].st \in {"new", "ready"}}

\* Every account that was made is the one on record, the one with the key or the
\* one being made, and a project has one of them: a crash, an error or a refusal
\* anywhere in `provision` makes the next run take up the same account.  The
\* ones let go of are those of a run cut off before the record was written, of
\* another project, and of an owner who pairs again.
OneAccount ==
    /\ Live \ lost \subseteq {keyFile, pendingFile.acct} \cup Unrecorded
    /\ \A a, b \in Live \ lost : acct[a].proj = acct[b].proj => a = b

\* A key on disk is of an account that was granted access, or whose owner was
\* told, at a run that ended in BindingForbidden, to grant it.
KeyBacked == keyFile # None => keyFile \in bound \cup told

\* The code on the page is the one being polled (or has just expired): no
\* code of a thrown-away run is ever put back.
CodeOnPage ==
    OnPage /\ status.phase = "Code" =>
        /\ status.code # None
        /\ task.pc = "poll" => task.code = status.code
        /\ task.pc \in {"poll", "device", "end"}

\* The person's login does not stay on disk once pairing has ended, whichever
\* way, nor under the daemon.
SessionGone ==
    /\ proc = "daemon" => ~sessionFile.there
    /\ OnPage /\ status.phase \in {"Done", "Failed"} => ~sessionFile.there

\* On the page a project is used only if the person picked it: the configured
\* one is a suggestion.
PickedByPerson ==
    OnPage /\ task.proj # None => task.proj \in picks

\* When the page says it is connected there is a key, of that project.
DoneAgrees ==
    OnPage /\ status.phase = "Done" =>
        keyFile # None /\ acct[keyFile].proj = status.project

\* Pairing implements Enrollment: one account on record, its key published once.
Enroll == INSTANCE Enrollment WITH
    made <- {a \in Accounts : acct[a].st # "unused"},
    held <- pendingFile.acct,
    key  <- keyFile

Enrolls == Enroll!ESpec

\* Every run that is started ends, in a key or in an error the page shows.
RunsEnd == OnPage /\ Running(status) ~> ~Running(status) \/ ~OnPage
=============================================================================
