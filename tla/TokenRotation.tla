---------------------------- MODULE TokenRotation ----------------------------
(***************************************************************************)
(* The bearer token of the desktop build: the host rotates it, saves it in *)
(* the keychain, tells the sidecar over its stdin and the webview with an  *)
(* event; the webview asks the host for it, at that event and once a       *)
(* minute, and sends it with each request, which the sidecar accepts or    *)
(* refuses.  Tokens are numbered by rotation.                              *)
(*                                                                         *)
(* Every rotation is a task of its own, as is every refresh of the webview,*)
(* and they interleave.  A keychain operation takes up to Patience ticks   *)
(* or, as a fault, hangs: it ends at any later moment, or never.  The      *)
(* other steps take no time.                                               *)
(***************************************************************************)
EXTENDS Integers, FiniteSets

CONSTANTS
    Interval,      \* DEFAULT_ROTATION_INTERVAL_MS
    Overlap,       \* OVERLAP of the sidecar
    Poll,          \* pollIntervalMs of the webview
    Patience,      \* how long a keychain operation takes unless it hangs
    MaxRotations,  \* bound: rotations
    MaxFaults,     \* bound: failed steps and keychain operations that hang
    MaxFlips,      \* bound: how often the page comes back from hidden
    None

ASSUME ScheduleAssumption ==
    /\ {Interval, Overlap, Poll} \subseteq Nat \ {0}
    /\ {Patience, MaxRotations, MaxFaults, MaxFlips} \subseteq Nat
    /\ None \notin Int

\* 30 seconds are less than a minute, and with two keychain operations less than
\* 5 minutes.  Nothing in vault.rs bounds an operation: one that asks a user who
\* is not there takes longer than Patience, and that is Stall.
ASSUME KeychainAssumption ==
    /\ Patience < Overlap
    /\ Overlap <= Poll /\ Overlap + 2 * Patience <= Interval

Tokens == 0..MaxRotations
Chains == 1..MaxFlips + 1
Boot == <<"boot", 0>>
Event(n) == <<"event", n>>
PollOf(c) == <<"poll", c>>
Fetch == <<"fetch", 0>>
Refreshes == {Boot, Fetch} \cup {Event(n) : n \in 1..MaxRotations} \cup {PollOf(c) : c \in Chains}
Save(n) == <<"save", n>>
Calls == {Save(n) : n \in Tokens} \cup Refreshes

VARIABLES
    current,    \* TokenRotator: the current token, its number
    toRotate,   \* ticks until the rotation loop wakes
    task,       \* the task of each rotation: what it does next
    vault,      \* keychain: sidecar_token, or None for that of an earlier session
    sidecar,    \* TokenSet of the sidecar: current, previous and the latter's age
    bearer,     \* webview: cache.current
    refresh,    \* the refresh_secrets calls of the webview, with what they read
    age,        \* how long each pending keychain operation has taken, or Stuck
    left,       \* ticks until the timer of each poll chain fires, or None
    armed,      \* timer !== null in startSmartPollLoop
    polling,    \* phase7 was reached
    visible, flips, faults,
    refused,    \* history: for how many ticks the visible page has been refused
    overtaken,  \* history: an older answer replaced a newer one and is in use
    disturbed   \* history: an operation hung or a hand-over failed, and no
                \*   hand-over in order was made since

host == <<current, toRotate, task, vault>>
poller == <<left, armed, polling, visible, flips>>
history == <<refused, overtaken, disturbed>>
vars == <<host, sidecar, bearer, refresh, age, poller, faults, history>>

\* The sidecar runs with the boot token, the task that saves it has been
\* spawned, and the page is at phase2.
Init ==
    /\ current = 0 /\ toRotate = Interval
    /\ task = [n \in Tokens |-> IF n = 0 THEN "read" ELSE "none"]
    /\ vault = None
    /\ sidecar = [current |-> 0, previous |-> None, age |-> 0]
    /\ bearer = None
    /\ refresh = [r \in Refreshes |-> [pc |-> IF r = Boot THEN "read" ELSE "idle", got |-> None]]
    /\ age = [p \in Calls |-> 0]
    /\ left = [c \in Chains |-> None]
    /\ armed = FALSE /\ polling = FALSE /\ visible = TRUE
    /\ flips = 0 /\ faults = 0
    /\ refused = 0 /\ overtaken = FALSE /\ disturbed = FALSE

Fault == faults < MaxFaults /\ faults' = faults + 1

\* A fault that host and sidecar may be out of step after.
Disturb == Fault /\ disturbed' = TRUE /\ refused' = 0

Stuck == Patience + 1

OnKeychain ==
    {Save(n) : n \in {m \in Tokens : task[m] \in {"read", "write"}}}
        \cup {r \in Refreshes : refresh[r].pc = "read"}

\* The keychain asks the user, say, and the call has no timeout.
Stall(p) ==
    /\ p \in OnKeychain /\ age[p] # Stuck
    /\ age' = [age EXCEPT ![p] = Stuck]
    /\ Disturb
    /\ UNCHANGED <<host, sidecar, bearer, refresh, poller, overtaken>>

------------------------------------------------------------------------------
(* Host: spawn_rotation_loop, and the task each rotation spawns.             *)

Wake == toRotate = 0 /\ toRotate' = Interval

\* rotate_now and the callback, which only spawns the task.
Rotate ==
    /\ Wake /\ current < MaxRotations
    /\ current' = current + 1
    /\ task' = [task EXCEPT ![current + 1] = "read"]
    /\ UNCHANGED <<vault, sidecar, bearer, refresh, age, poller, faults, history>>

\* generate_token fails; the loop goes on.
RotateFails ==
    /\ Wake /\ Fault
    /\ UNCHANGED <<current, task, vault, sidecar, bearer, refresh, age, poller, history>>

Step(n, from, to) == task[n] = from /\ task' = [task EXCEPT ![n] = to]
Restart(p) == age' = [age EXCEPT ![p] = 0]

\* The seed task of setup_main_window only saves.
AfterSave(n) == IF n = 0 THEN "done" ELSE "forward"

PersistRead(n) ==
    /\ Step(n, "read", "write") /\ Restart(Save(n))
    /\ UNCHANGED <<current, toRotate, vault, sidecar, bearer, refresh, poller, faults, history>>

PersistWrite(n) ==
    /\ Step(n, "write", AfterSave(n)) /\ Restart(Save(n))
    /\ vault' = n
    /\ UNCHANGED <<current, toRotate, sidecar, bearer, refresh, poller, faults, history>>

\* Either keychain operation fails: logged, and the task goes on.
PersistFails(n) ==
    /\ Step(n, "read", AfterSave(n)) \/ Step(n, "write", AfterSave(n))
    /\ Restart(Save(n)) /\ Fault
    /\ UNCHANGED <<current, toRotate, vault, sidecar, bearer, refresh, poller, history>>

\* The sidecar keeps the token it had as the previous one.
SetPair_Shifts(n) == [current |-> n, previous |-> sidecar.current, age |-> 0]

SetPair_NoPrevious(n) == [current |-> n, previous |-> None, age |-> 0]

\* TOKEN_ROTATED on the sidecar's stdin; the sidecar times the overlap itself.
SetPair(n) == [current |-> n, previous |-> n - 1, age |-> 0]

\* The newest rotation's, in time, while no other task and no operation hangs.
InOrder(n) ==
    /\ n = current /\ Interval - toRotate <= 2 * Patience
    /\ \A m \in Tokens \ {n} : task[m] \in {"none", "done"}
    /\ \A p \in Calls : age[p] # Stuck

Forward(n) ==
    /\ Step(n, "forward", "emit")
    /\ sidecar' = SetPair(n)
    /\ disturbed' = (disturbed /\ ~InOrder(n))
    /\ UNCHANGED <<current, toRotate, vault, bearer, refresh, age, poller, faults, refused, overtaken>>

\* The sidecar's stdin cannot be written: logged, and the event still follows.
ForwardFails(n) ==
    /\ Step(n, "forward", "emit")
    /\ Disturb
    /\ UNCHANGED <<current, toRotate, vault, sidecar, bearer, refresh, age, poller, overtaken>>

\* The event's listener calls resolveLocalApiToken.
Emit(n) ==
    /\ Step(n, "emit", "done")
    /\ refresh' = [refresh EXCEPT ![Event(n)].pc = "read"]
    /\ UNCHANGED <<current, toRotate, vault, sidecar, bearer, age, poller, faults, history>>

EmitFails(n) ==
    /\ Step(n, "emit", "done") /\ Fault
    /\ UNCHANGED <<current, toRotate, vault, sidecar, bearer, refresh, age, poller, history>>

------------------------------------------------------------------------------
(* refresh_secrets and resolveLocalApiToken, and the poll loop around it.    *)

\* The vault is read first, the rotator after it: the answer is the rotator's.
RefreshRead(r) ==
    /\ refresh[r].pc = "read"
    /\ refresh' = [refresh EXCEPT ![r] = [pc |-> "answer", got |-> current]]
    /\ Restart(r)
    /\ UNCHANGED <<host, sidecar, bearer, poller, faults, history>>

Schedule(c) == left' = [left EXCEPT ![c] = Poll] /\ armed' = TRUE

\* What comes after the await of each caller: phase7 starts the loop, a poll
\* schedules the next one unless the page is hidden, the others end.
Then(r) ==
    /\ polling' = (polling \/ r = Boot)
    /\ \/ /\ visible /\ r[1] \in {"boot", "poll"}
          /\ Schedule(IF r = Boot THEN 1 ELSE r[2])
       \/ /\ visible => r[1] \in {"event", "fetch"}
          /\ left' = left
          /\ armed' = (armed /\ r[1] # "poll")
    /\ UNCHANGED <<visible, flips>>

Idle(r) == refresh' = [refresh EXCEPT ![r] = [pc |-> "idle", got |-> None]]

RefreshApply(r) ==
    /\ refresh[r].pc = "answer"
    /\ bearer' = refresh[r].got
    /\ overtaken' = (bearer # None /\ (bearer > bearer' \/ (overtaken /\ bearer = bearer')))
    /\ Idle(r) /\ Then(r)
    /\ UNCHANGED <<host, sidecar, age, faults, refused, disturbed>>

RefreshFails_EndsLoop(r) ==
    /\ refresh[r].pc = "read" /\ Fault
    /\ Idle(r) /\ Restart(r)
    /\ UNCHANGED <<host, sidecar, bearer, poller, history>>

\* The vault cannot be read: the webview keeps what it has.
RefreshFails(r) ==
    /\ refresh[r].pc = "read" /\ Fault
    /\ Idle(r) /\ Then(r) /\ Restart(r)
    /\ UNCHANGED <<host, sidecar, bearer, history>>

\* A request finds no token in the cache and asks for one first.
FetchResolves ==
    /\ bearer = None /\ refresh[Fetch].pc = "idle"
    /\ refresh' = [refresh EXCEPT ![Fetch].pc = "read"]
    /\ UNCHANGED <<host, sidecar, bearer, age, poller, faults, history>>

\* A run of the poll loop begins: its refresh is sent.
Run(c) == refresh' = [refresh EXCEPT ![PollOf(c)].pc = "read"]

PollFires(c) ==
    /\ left[c] = 0
    /\ left' = [left EXCEPT ![c] = None] /\ armed' = FALSE
    /\ Run(c)
    /\ UNCHANGED <<host, sidecar, bearer, age, polling, visible, flips, faults, history>>

Hide ==
    /\ visible /\ flips < MaxFlips
    /\ visible' = FALSE
    /\ UNCHANGED <<host, sidecar, bearer, refresh, age, left, armed, polling, flips, faults, history>>

\* visibilityListener: a run begins unless a timer is set.  One that awaits its
\* refresh has no timer either, and then there are two.
Show ==
    /\ ~visible
    /\ visible' = TRUE /\ flips' = flips + 1
    /\ \/ /\ polling /\ ~armed
          /\ \E c \in Chains :
                /\ left[c] = None /\ refresh[PollOf(c)].pc = "idle"
                /\ \A d \in 1..c - 1 : left[d] # None \/ refresh[PollOf(d)].pc # "idle"
                /\ Run(c)
       \/ (armed \/ ~polling) /\ UNCHANGED refresh
    /\ UNCHANGED <<host, sidecar, bearer, age, left, armed, polling, faults, history>>

------------------------------------------------------------------------------
(* The sidecar and time.                                                     *)

\* TokenSet::accepts, which require_bearer asks of each request.
Accepts(t) ==
    \/ t = sidecar.current
    \/ t = sidecar.previous /\ sidecar.age < Overlap

\* A page without a token asks for one before its request (FetchResolves).
Refused == bearer # None /\ ~Accepts(bearer)

\* Nothing that takes no time is left to do.
Quiet ==
    /\ toRotate > 0
    /\ \A n \in Tokens : task[n] \notin {"forward", "emit"}
    /\ \A r \in Refreshes : refresh[r].pc # "answer"
    /\ \A p \in OnKeychain : age[p] # Patience
    /\ \A c \in Chains : left[c] # 0

Tick ==
    /\ Quiet
    /\ toRotate' = toRotate - 1
    /\ age' = [p \in Calls |-> IF p \in OnKeychain /\ age[p] # Stuck THEN age[p] + 1 ELSE age[p]]
    /\ sidecar' = IF sidecar.age < Overlap THEN [sidecar EXCEPT !.age = @ + 1] ELSE sidecar
    /\ left' = [c \in Chains |-> IF left[c] = None THEN None ELSE left[c] - 1]
    /\ refused' = IF visible /\ Refused /\ ~disturbed THEN refused + 1 ELSE 0
    /\ UNCHANGED <<current, task, vault, bearer, refresh, armed, polling, visible, flips,
                   faults, overtaken, disturbed>>

Next ==
    \/ Rotate \/ RotateFails \/ Tick \/ Hide \/ Show \/ FetchResolves
    \/ \E n \in Tokens :
          PersistRead(n) \/ PersistWrite(n) \/ PersistFails(n)
              \/ Forward(n) \/ ForwardFails(n) \/ Emit(n) \/ EmitFails(n)
    \/ \E r \in Refreshes : RefreshRead(r) \/ RefreshApply(r) \/ RefreshFails(r)
    \/ \E c \in Chains : PollFires(c)
    \/ \E p \in Calls : Stall(p)

Spec == Init /\ [][Next]_vars

------------------------------------------------------------------------------
(* Properties.                                                               *)

\* A rotation is never felt by the page: while nothing has failed its requests
\* are refused only for a token the sidecar has not been told of yet, or after
\* an answer that was overtaken by a newer one.
BearerAccepted ==
    Refused => bearer > sidecar.current \/ overtaken \/ faults > 0

\* A failed refresh, a lost event or an overtaken answer is made good by the
\* polls: a visible page is refused for at most a poll period, and another for
\* each failure ("once a minute so the H1 30-second overlap window is always
\* tight", boot.ts); where the poll brings a token the sidecar is still to be told
\* of, for as long as the keychain takes to save that one.
RefusedAtMost == refused <= (faults + 1) * (Poll + Patience) - Overlap + 2 * Patience

\* When the tasks of all rotations have ended, failed or not, the sidecar has
\* the pair of the host ("Sidecar accepts token only if it equals current OR
\* previous", SPEC-001), and the vault its token unless a save failed ("the
\* host's vault always carries the freshest current/previous pair", ipc.rs).  A
\* task that hangs can hand over its token after a newer one, and a hand-over
\* can fail: that is over with the next hand-over in order, which repairs both
\* tokens of the pair whatever was missed.
NoTaskPending == \A n \in Tokens : task[n] \in {"none", "done"}
SidecarSettles ==
    NoTaskPending /\ ~disturbed =>
        /\ sidecar.current = current
        /\ sidecar.previous = IF current = 0 THEN None ELSE current - 1
VaultSettles == NoTaskPending => vault = current \/ faults > 0
SettlesOnCurrent == SidecarSettles /\ VaultSettles
==============================================================================
