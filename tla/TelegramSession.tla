--------------------------- MODULE TelegramSession ---------------------------
(***************************************************************************)
(* The Telegram session of the desktop build.  A login in the host makes   *)
(* it; the host keeps it in the vault, next to the sidecar token, in one   *)
(* blob that every writer reads, changes and writes back; a line on stdin  *)
(* hands it to the sidecar, whose poll loop reports on stdout the bytes    *)
(* its client has changed, which the host harvests back into the vault.    *)
(*                                                                         *)
(* A session is the login that made it and its revision: 0 before Telegram *)
(* accepted the code, 1 after, more when the poll loop's client renews it. *)
(* The loop is started on the sidecar's store as task.rs does it, for no   *)
(* binary starts it today.                                                 *)
(***************************************************************************)
EXTENDS Integers, Sequences

CONSTANTS
    MaxLogins,     \* bound: calls of telegram_login_begin
    MaxRenewals,   \* bound: changes of the session by the poll loop's client
    MaxRotations,  \* bound: rotations of the sidecar token
    MaxLogouts,    \* bound: calls of clear_telegram_session
    MaxFaults,     \* bound: vault writes and lines to the sidecar that fail
    MaxLines,      \* bound: lines in the pipe to the host
    None

ASSUME BoundsAssumption ==
    {MaxLogins, MaxRenewals, MaxRotations, MaxLogouts, MaxFaults, MaxLines} \subseteq Nat

Logins == 1..MaxLogins
Sessions == [login : Logins, rev : 0..MaxRenewals + 1]
SignedIn(s) == s.rev > 0

ASSUME NoneAssumption == None \notin Sessions \cup {"cleared", "updated"}

Signing(n) == <<"login", n>>
LoggingOut == <<"logout", 0>>
Harvesting == <<"harvest", 0>>
Rotating == <<"rotation", 0>>
Writers == {Signing(n) : n \in Logins} \cup {LoggingOut, Harvesting, Rotating}

VARIABLES
    vault,    \* the blob in the keychain: telegram_session, and the token's number
    cached,   \* LocalApiState::cached
    save,     \* each writer of the blob: what it does next, with what bytes, what blob
    begin,    \* what each telegram_login_begin awaits
    ctx,      \* telegram_login: the login in flight and the token its client holds
    file,     \* the session file every login uses
    down, up, \* the sidecar's stdin; its stdout with the harvest channel
    store,    \* IpcSessionStore::inner
    heard,    \* the event that waits in the loop's watch channel, or None
    loop,     \* the poll loop
    live,     \* the session of the loop's client
    logouts, faults,
    crossed,  \* history: a login began while another was not over
    mixed,    \* history: a write or a line failed, or two writers overlapped; until
              \* a writer has the vault to itself and its line is sent
    out       \* history: how far the last logout has come with nothing in its way

host == <<vault, cached, save>>
login == <<begin, ctx, file, crossed>>
sidecar == <<store, heard, loop, live>>
vars == <<host, login, down, up, sidecar, logouts, faults, mixed, out>>

\* Of the one blob in the keychain, the session and which token it is.
SecretsBlob(session, token) == [session |-> session, token |-> token]

Idle == [at |-> "idle", bytes |-> None, blob |-> None]

Init ==
    /\ vault = SecretsBlob(None, 0) /\ cached = vault
    /\ save = [w \in Writers |-> Idle]
    /\ begin = [n \in Logins |-> "no"] /\ ctx = None /\ file = None
    /\ down = <<>> /\ up = <<>>
    /\ store = None /\ heard = None /\ loop = "off" /\ live = None
    /\ logouts = 0 /\ faults = 0 /\ crossed = FALSE /\ mixed = "no" /\ out = "no"

(***************************************************************************)
(* The login dialog                                                        *)
(***************************************************************************)

\* A writer between its read of the blob and the end of its work with it.
Busy(w) == save[w].at \in {"write", "share", "push"}
Untouched == \A w \in Writers : ~Busy(w)

\* The login in flight is shut down, and the file that all share removed.
ShutDown == file' = IF ctx = None THEN file ELSE None

\* The client of the login in flight reads the file, whoever wrote it.
SessionBytes == IF ctx = None THEN None ELSE file

\* The session file is removed and made anew before the code is asked for.
LoginBegin(n) ==
    /\ begin[n] = "no" /\ (n > 1 => begin[n - 1] # "no")
    /\ file' = [login |-> n, rev |-> 0]
    /\ begin' = [begin EXCEPT ![n] = "request"]
    /\ crossed' = (crossed \/ ctx # None
                   \/ \E m \in Logins : begin[m] = "request" \/ save[Signing(m)].at # "idle")
    /\ UNCHANGED <<host, ctx, down, up, sidecar, logouts, faults, mixed, out>>

\* The login that was in flight is shut down.
CodeRequested(n) ==
    /\ begin[n] = "request"
    /\ begin' = [begin EXCEPT ![n] = "done"]
    /\ ctx' = [login |-> n, holds |-> "code"]
    /\ ShutDown
    /\ UNCHANGED <<host, crossed, down, up, sidecar, logouts, faults, mixed, out>>

RequestRefused(n) ==
    /\ begin[n] = "request"
    /\ begin' = [begin EXCEPT ![n] = "done"]
    /\ UNCHANGED <<host, ctx, file, crossed, down, up, sidecar, logouts, faults, mixed, out>>

\* Telegram accepts: the client signs in its own session, in the file if the
\* file is still its own, and the command goes on to read the file.
Accepted ==
    /\ file' = IF file = [login |-> ctx.login, rev |-> 0]
               THEN [file EXCEPT !.rev = 1] ELSE file
    /\ ctx' = [ctx EXCEPT !.holds = "nothing"]
    /\ save' = [save EXCEPT ![Signing(ctx.login)].at = "bytes"]

\* Mutant: an account with a password counts as signed in.
SubmitCode_NoPassword ==
    /\ ctx # None /\ ctx.holds = "code"
    /\ \/ Accepted
       \/ /\ ctx' = [ctx EXCEPT !.holds = "password"]
          /\ save' = [save EXCEPT ![Signing(ctx.login)].at = "bytes"]
          /\ UNCHANGED file
    /\ UNCHANGED <<vault, cached, begin, crossed, down, up, sidecar, logouts, faults, mixed, out>>

\* A refused code gives the login token back and changes nothing.
SubmitCode ==
    /\ ctx # None /\ ctx.holds = "code"
    /\ \/ Accepted
       \/ /\ ctx' = [ctx EXCEPT !.holds = "password"]
          /\ UNCHANGED <<file, save>>
    /\ UNCHANGED <<vault, cached, begin, crossed, down, up, sidecar, logouts, faults, mixed, out>>

\* A refused password uses its token up.
SubmitPassword ==
    /\ ctx # None /\ ctx.holds = "password"
    /\ \/ Accepted
       \/ /\ ctx' = [ctx EXCEPT !.holds = "nothing"]
          /\ UNCHANGED <<file, save>>
    /\ UNCHANGED <<vault, cached, begin, crossed, down, up, sidecar, logouts, faults, mixed, out>>

\* finalize_login_after_success reads the file of whichever login is in flight.
ReadFile(n) ==
    /\ save[Signing(n)].at = "bytes"
    /\ save' = [save EXCEPT ![Signing(n)] = IF SessionBytes = None THEN Idle
                                   ELSE [Idle EXCEPT !.at = "read", !.bytes = SessionBytes]]
    /\ out' = "no"
    /\ UNCHANGED <<vault, cached, login, down, up, sidecar, logouts, faults, mixed>>

\* ... and at the end shuts whichever login is in flight down.
DropLogin(n) ==
    /\ save[Signing(n)].at = "drop"
    /\ save' = [save EXCEPT ![Signing(n)] = Idle]
    /\ ctx' = None
    /\ ShutDown
    /\ UNCHANGED <<vault, cached, begin, crossed, down, up, sidecar, logouts, faults, mixed, out>>

(***************************************************************************)
(* The writers of the vault                                                *)
(***************************************************************************)

\* What is left to do when the blob is stored and the sidecar told.
Rest(w) == IF w \notin {LoggingOut, Harvesting, Rotating} THEN [Idle EXCEPT !.at = "drop"] ELSE Idle

\* The writer reads the blob and changes its copy of it; a session that is
\* there already is not written again.
Read(w, new) ==
    /\ save' = [save EXCEPT ![w] = IF w # Rotating /\ new = vault THEN Rest(w)
                                   ELSE [at |-> "write", bytes |-> None, blob |-> new]]
    /\ mixed' = IF ~Untouched THEN "yes"
                ELSE IF mixed = "no" \/ w = Rotating \/ new = vault THEN mixed ELSE "mending"

PersistLogin(n) ==
    /\ save[Signing(n)].at = "read"
    /\ Read(Signing(n), [vault EXCEPT !.session = save[Signing(n)].bytes])
    /\ UNCHANGED <<vault, cached, login, down, up, sidecar, logouts, faults, out>>

\* The harvest loop takes one session at a time.
Harvest ==
    /\ up # <<>> /\ save[Harvesting] = Idle
    /\ up' = Tail(up)
    /\ Read(Harvesting, [vault EXCEPT !.session = Head(up)])
    /\ UNCHANGED <<vault, cached, login, down, sidecar, logouts, faults, out>>

Logout ==
    /\ logouts < MaxLogouts /\ save[LoggingOut] = Idle
    /\ logouts' = logouts + 1
    /\ Read(LoggingOut, [vault EXCEPT !.session = None])
    /\ UNCHANGED <<vault, cached, login, down, up, sidecar, faults, out>>

Rotate ==
    /\ save[Rotating] = Idle /\ vault.token < MaxRotations
    /\ Read(Rotating, [vault EXCEPT !.token = @ + 1])
    /\ UNCHANGED <<vault, cached, login, down, up, sidecar, logouts, faults, out>>

\* A logout has nothing in its way when no other writer is at work, no session
\* is on its way to the host and the poll loop is between two cycles.
Write(w) ==
    /\ save[w].at = "write"
    /\ vault' = save[w].blob
    /\ save' = [save EXCEPT ![w].at = "share"]
    /\ out' = IF w # LoggingOut THEN out
              ELSE IF /\ up = <<>> /\ loop \in {"off", "wait"}
                      /\ \A v \in Writers \ {w} : save[v].at \in {"idle", "drop"}
                   THEN "told" ELSE "no"
    /\ UNCHANGED <<cached, login, down, up, sidecar, logouts, faults, mixed>>

\* The error ends the login command, and a harvested session is given up.
WriteFails(w) ==
    /\ save[w].at = "write" /\ faults < MaxFaults
    /\ faults' = faults + 1 /\ mixed' = "yes"
    /\ save' = [save EXCEPT ![w] = Idle]
    /\ UNCHANGED <<vault, cached, login, down, up, sidecar, logouts, out>>

Share(w) ==
    /\ save[w].at = "share"
    /\ cached' = save[w].blob
    /\ save' = [save EXCEPT ![w] = IF w = Rotating THEN Idle ELSE [@ EXCEPT !.at = "push"]]
    /\ UNCHANGED <<vault, login, down, up, sidecar, logouts, faults, mixed, out>>

\* TELEGRAM_SESSION_UPDATED, or TELEGRAM_SESSION_CLEARED for a logout.
Push(w) ==
    /\ save[w].at = "push"
    /\ down' = Append(down, save[w].blob.session)
    /\ save' = [save EXCEPT ![w] = Rest(w)]
    /\ mixed' = IF mixed = "mending" THEN "no" ELSE mixed
    /\ UNCHANGED <<vault, cached, login, up, sidecar, logouts, faults, out>>

\* A line that cannot be sent, for want of a sidecar or of its stdin, is logged
\* and no more: the sidecar keeps the session it has.
PushFails(w) ==
    /\ save[w].at = "push" /\ faults < MaxFaults
    /\ faults' = faults + 1 /\ mixed' = "yes"
    /\ save' = [save EXCEPT ![w] = Rest(w)]
    /\ out' = IF w = LoggingOut THEN "no" ELSE out
    /\ UNCHANGED <<vault, cached, login, down, up, sidecar, logouts>>

(***************************************************************************)
(* The sidecar                                                             *)
(***************************************************************************)

\* A watch channel keeps the last event only, and a loop that has not
\* subscribed yet takes it for seen.
Announce(session) ==
    heard' = IF loop \notin {"wait", "cycle", "after"} THEN None
             ELSE IF session = None THEN "cleared" ELSE "updated"

\* A line on stdout, which the host's drain task puts into the harvest channel.
Upstream(session) == Len(up) < MaxLines /\ up' = Append(up, session)

ReadLine ==
    /\ down # <<>>
    /\ down' = Tail(down)
    /\ store' = Head(down)
    /\ Announce(Head(down))
    /\ out' = IF out = "told" /\ \A i \in DOMAIN down : down[i] = None THEN "final" ELSE out
    /\ UNCHANGED <<host, login, up, loop, live, logouts, faults, mixed>>

\* The client is made on the stored bytes; without a signed-in session the
\* loop ends at once.
Start ==
    /\ loop = "off" /\ store # None /\ SignedIn(store)
    /\ loop' = "boot" /\ live' = store /\ heard' = None
    /\ out' = IF out = "told" THEN "no" ELSE out
    /\ UNCHANGED <<host, login, down, up, store, logouts, faults, mixed>>

\* Mutant: the renewed bytes stay in the sidecar.
PersistSession_Local ==
    /\ loop \in {"boot", "after"}
    /\ loop' = "wait"
    /\ IF store = live THEN UNCHANGED <<store, heard>>
       ELSE store' = live /\ Announce(live)
    /\ UNCHANGED <<host, login, down, up, live, logouts, faults, mixed, out>>

\* persist_session_if_changed, after which the loop at boot subscribes.
PersistSession ==
    /\ loop \in {"boot", "after"}
    /\ loop' = "wait"
    /\ IF store = live THEN UNCHANGED <<up, store, heard>>
       ELSE Upstream(live) /\ store' = live /\ Announce(live)
    /\ UNCHANGED <<host, login, down, live, logouts, faults, mixed, out>>

\* Mutant: the loop goes on with its connection, as after an update.
Hear_GoesOn ==
    /\ loop = "wait" /\ heard # None
    /\ heard' = None
    /\ UNCHANGED <<host, login, down, up, store, loop, live, logouts, faults, mixed, out>>

\* The select is biased: a session event comes before a tick.
Hear ==
    /\ loop = "wait" /\ heard # None
    /\ heard' = None
    /\ IF heard = "cleared" THEN loop' = "off" /\ live' = None
       ELSE UNCHANGED <<loop, live>>
    /\ UNCHANGED <<host, login, down, up, store, logouts, faults, mixed, out>>

Tick ==
    /\ loop = "wait" /\ heard = None
    /\ loop' = "cycle"
    /\ out' = IF out = "told" THEN "no" ELSE out
    /\ UNCHANGED <<host, login, down, up, store, heard, live, logouts, faults, mixed>>

\* A cycle may renew the session; only a successful one has it persisted: a
\* dry, failed or flooded one goes back to waiting.
Cycle ==
    /\ loop = "cycle"
    /\ loop' \in {"after", "wait"}
    /\ \/ UNCHANGED live
       \/ live.rev <= MaxRenewals /\ live' = [live EXCEPT !.rev = @ + 1]
    /\ UNCHANGED <<host, login, down, up, store, heard, logouts, faults, mixed, out>>

Next ==
    \/ \E n \in Logins : LoginBegin(n) \/ CodeRequested(n) \/ RequestRefused(n)
                         \/ ReadFile(n) \/ DropLogin(n) \/ PersistLogin(n)
    \/ SubmitCode \/ SubmitPassword
    \/ Harvest \/ Logout \/ Rotate
    \/ \E w \in Writers : Write(w) \/ WriteFails(w) \/ Share(w) \/ Push(w) \/ PushFails(w)
    \/ ReadLine \/ Start \/ PersistSession \/ Hear \/ Tick \/ Cycle

Spec == Init /\ [][Next]_vars

(***************************************************************************)
(* Properties                                                              *)
(***************************************************************************)

\* ipc.rs, "read the freshly-minted session bytes": while logins do not cross,
\* only a session Telegram has accepted is ever stored or handed on.
OnlySignedIn ==
    ~crossed => \A s \in ({vault.session, cached.session, store, live}
                          \cup {down[i] : i \in DOMAIN down}
                          \cup {up[i] : i \in DOMAIN up}) \ {None} : SignedIn(s)

Quiet == /\ \A w \in Writers : save[w].at \in {"idle", "bytes", "read", "drop"}
         /\ up = <<>> /\ down = <<>>

\* When all lines are read and no writer is at work, the vault, the host's copy
\* and the sidecar hold the same session, whatever order logins, logouts and
\* renewals came in. What overlapping writers, a failed write or a failed line
\* have put apart stays apart until the next login, logout or harvest that meets
\* no other writer and tells the sidecar, and no longer.
AgreeWhenQuiet == Quiet /\ mixed = "no" => cached = vault /\ store = vault.session

\* A logout that meets the poll loop between two cycles, and no other writer, and
\* whose line is sent, is final: no harvested or rotated blob brings the session
\* back before the next login.
LogoutIsFinal == out = "final" => vault.session = None /\ store = None /\ up = <<>>
=============================================================================
