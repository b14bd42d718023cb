---------------------------- MODULE TelegramProofs ----------------------------
(***************************************************************************)
(* Proofs about TelegramSession, for every number of logins, logouts,      *)
(* renewals, rotations, failed writes and lines in the pipe.               *)
(*                                                                         *)
(* OnlySignedIn needs the dialog: while logins do not cross, the file that *)
(* all share belongs to the one login in flight, and is signed in when the *)
(* command goes on to read it.  AgreeWhenQuiet needs what is still on its  *)
(* way: the last line down, or the store, is the vault's session unless a  *)
(* line up differs from it, which its harvest will put right; and that a   *)
(* login whose code is not accepted yet writes nothing.                    *)
(* LogoutIsFinal needs that nothing that could bring a session back is     *)
(* left, neither a blob nor a line nor a cycle.                            *)
(***************************************************************************)
EXTENDS TelegramSession, SequenceTheorems, TLAPS

Maybe == Sessions \cup {None}
Blobs == [session : Maybe, token : Nat]
Saves == [at : {"idle", "bytes", "read", "write", "share", "push", "drop"},
          bytes : Maybe, blob : Blobs \cup {None}]
Dialogs == [login : Logins, holds : {"code", "password", "nothing"}]

SavesTyped ==
    /\ save \in [Writers -> Saves]
    /\ \A w \in Writers : Busy(w) => save[w].blob \in Blobs

TypeInv ==
    /\ vault \in Blobs /\ cached \in Blobs
    /\ SavesTyped
    /\ begin \in [Logins -> {"no", "request", "done"}]
    /\ ctx \in Dialogs \cup {None} /\ file \in Maybe
    /\ down \in Seq(Maybe) /\ up \in Seq(Sessions)
    /\ store \in Maybe /\ heard \in {None, "cleared", "updated"}
    /\ loop \in {"off", "boot", "wait", "cycle", "after"}
    /\ live \in Maybe /\ (loop # "off" => live \in Sessions)
    /\ out \in {"no", "told", "final"}

------------------------------------------------------------------------------
\* What the login dialog is at while no two logins crossed.
Accept(x) == x # None => SignedIn(x)

PlacesSigned ==
    /\ Accept(vault.session) /\ Accept(cached.session) /\ Accept(store) /\ Accept(live)
    /\ \A i \in DOMAIN down : Accept(down[i])
    /\ \A i \in DOMAIN up : Accept(up[i])

WritersSigned ==
    \A w \in Writers : /\ save[w].at = "read" => Accept(save[w].bytes)
                       /\ Busy(w) => Accept(save[w].blob.session)

NoRequest == \A m \in Logins : begin[m] # "request"
NoSigning == \A m \in Logins : save[Signing(m)].at = "idle"

OneDialog ==
    /\ \A n \in Logins : begin[n] = "request" =>
          /\ ctx = None /\ file = [login |-> n, rev |-> 0] /\ NoSigning
          /\ \A m \in Logins : begin[m] = "request" => m = n
    /\ ctx # None /\ ctx.holds # "nothing" =>
          file = [login |-> ctx.login, rev |-> 0] /\ NoRequest /\ NoSigning
    /\ \A n \in Logins : save[Signing(n)].at # "idle" =>
          /\ ctx = [login |-> n, holds |-> "nothing"] /\ NoRequest
          /\ \A m \in Logins : save[Signing(m)].at # "idle" => m = n
          /\ save[Signing(n)].at = "bytes" => file = [login |-> n, rev |-> 1]

SignInv == ~crossed => PlacesSigned /\ WritersSigned /\ OneDialog

------------------------------------------------------------------------------
\* The session the sidecar will hold when it has read its lines.
Coming == IF down = <<>> THEN store ELSE down[Len(down)]
Synced == Coming = vault.session \/ \E i \in DOMAIN up : up[i] # vault.session

\* A login that has no code yet, or one not accepted yet, writes nothing.
FreshLogins ==
    /\ \A n \in Logins : begin[n] # "done" =>
          save[Signing(n)].at = "idle" /\ (ctx # None => ctx.login # n)
    /\ ctx # None /\ ctx.holds # "nothing" => save[Signing(ctx.login)].at = "idle"

\* One writer at a time, and what it has done so far is done everywhere.
Agreed ==
    /\ \A v, w \in Writers : Busy(v) /\ Busy(w) => v = w
    /\ (\A w \in Writers : ~Busy(w)) => cached = vault /\ Synced
    /\ \A w \in Writers :
          /\ save[w].at = "write" => cached = vault
          /\ save[w].at \in {"share", "push"} => save[w].blob = vault
          /\ save[w].at = "push" => cached = vault
    /\ save[Rotating].at # "push"
    /\ save[Rotating].at = "write" => save[Rotating].blob.session = vault.session
    /\ Busy(Rotating) => Synced

\* Whatever the three held before, one writer is putting its own blob in each.
Mended ==
    \E w \in Writers \ {Rotating} :
        /\ Busy(w) /\ \A v \in Writers \ {w} : ~Busy(v)
        /\ save[w].at \in {"share", "push"} => save[w].blob = vault
        /\ save[w].at = "push" => cached = vault

AgreeInv == (mixed = "no" => Agreed) /\ (mixed = "mending" => Mended)

------------------------------------------------------------------------------
\* Nothing is left that could bring a session back.
FinalInv ==
    /\ Busy(LoggingOut) => save[LoggingOut].blob.session = None
    /\ out \in {"told", "final"} =>
          /\ vault.session = None /\ up = <<>> /\ loop \in {"off", "wait"}
          /\ \A w \in Writers : /\ save[w].at # "read"
                                /\ Busy(w) => save[w].blob.session = None
    /\ out = "final" =>
          /\ store = None /\ \A i \in DOMAIN down : down[i] = None
          /\ loop = "wait" => heard = "cleared"

TelegramInv == TypeInv /\ SignInv /\ FreshLogins /\ AgreeInv /\ FinalInv

------------------------------------------------------------------------------
\* The writers are apart, and None is no session and no event.
LEMMA Apart ==
    /\ \A n \in Logins : /\ Signing(n) \in Writers
                          /\ Signing(n) \notin {LoggingOut, Harvesting, Rotating}
                          /\ \A m \in Logins : Signing(m) = Signing(n) => m = n
    /\ {LoggingOut, Harvesting, Rotating} \subseteq Writers
    /\ LoggingOut # Harvesting /\ LoggingOut # Rotating /\ Harvesting # Rotating
    /\ \A w \in Writers : w \in {LoggingOut, Harvesting, Rotating}
                          \/ \E n \in Logins : w = Signing(n)
    /\ None \notin Sessions /\ None # "cleared" /\ None # "updated"
BY NoneAssumption DEF Writers, Signing, LoggingOut, Harvesting, Rotating

\* What a session can be.
LEMMA SessionTypes ==
    /\ \A n \in Logins : [login |-> n, rev |-> 0] \in Sessions
                        /\ [login |-> n, rev |-> 1] \in Sessions
    /\ \A s \in Sessions : s.rev <= MaxRenewals => [s EXCEPT !.rev = @ + 1] \in Sessions
    /\ \A s \in Sessions : s.rev = 0 => [s EXCEPT !.rev = 1] \in Sessions
    /\ \A s \in Sessions : s.rev \in Nat /\ s.login \in Logins
BY BoundsAssumption DEF Sessions

\* The head and the tail of the lines down and up.
LEMMA Lines ==
    ASSUME TypeInv
    PROVE  /\ down # <<>> => /\ Head(down) \in Maybe /\ Tail(down) \in Seq(Maybe)
                             /\ Head(down) = down[1] /\ 1 \in DOMAIN down
                             /\ \A i \in DOMAIN Tail(down) :
                                   i + 1 \in DOMAIN down /\ Tail(down)[i] = down[i + 1]
           /\ up # <<>> => /\ Head(up) \in Sessions /\ Tail(up) \in Seq(Sessions)
                           /\ Head(up) = up[1] /\ 1 \in DOMAIN up
                           /\ \A i \in DOMAIN Tail(up) :
                                 i + 1 \in DOMAIN up /\ Tail(up)[i] = up[i + 1]
BY HeadTailProperties, EmptySeq, LenProperties DEF TypeInv

\* A line appended is the last, and the others stay.
LEMMA Appended ==
    ASSUME NEW S, NEW s \in Seq(S), NEW x \in S
    PROVE  /\ Append(s, x) \in Seq(S) /\ Append(s, x) # <<>>
           /\ Append(s, x)[Len(Append(s, x))] = x
           /\ \A i \in DOMAIN Append(s, x) :
                 Append(s, x)[i] = x \/ (i \in DOMAIN s /\ Append(s, x)[i] = s[i])
           /\ \A i \in DOMAIN s : i \in DOMAIN Append(s, x) /\ Append(s, x)[i] = s[i]
           /\ \E i \in DOMAIN Append(s, x) : Append(s, x)[i] = x
<1>1. /\ Append(s, x) \in Seq(S) /\ Append(s, x) # <<>> /\ Len(Append(s, x)) = Len(s) + 1
      /\ \A i \in 1..Len(s) : Append(s, x)[i] = s[i]
      /\ Append(s, x)[Len(s) + 1] = x
  BY AppendProperties
<1>2. DOMAIN s = 1..Len(s) /\ DOMAIN Append(s, x) = 1..Len(s) + 1 /\ Len(s) \in Nat
  BY <1>1, LenProperties
<1> QED BY <1>1, <1>2

\* Every step is one of these.
LEMMA Steps ==
    [Next]_vars =>
        \/ \E n \in Logins : \/ LoginBegin(n) \/ CodeRequested(n) \/ RequestRefused(n)
                             \/ ReadFile(n) \/ DropLogin(n) \/ PersistLogin(n)
        \/ SubmitCode \/ SubmitPassword \/ Harvest \/ Logout \/ Rotate
        \/ \E w \in Writers : Write(w) \/ WriteFails(w) \/ Share(w) \/ Push(w) \/ PushFails(w)
        \/ ReadLine \/ Start \/ PersistSession \/ Hear \/ Tick \/ Cycle
        \/ UNCHANGED vars
BY DEF Next

\* Nobody is at work at first.
LEMMA TelegramInit == Init => TelegramInv
<1> SUFFICES ASSUME Init PROVE TelegramInv
  OBVIOUS
<1>1. \A w \in Writers : save[w] = Idle /\ ~Busy(w)
  BY DEF Init, Busy, Idle
<1>2. down = <<>> /\ up = <<>> /\ vault.session = None /\ cached = vault /\ store = None /\ live = None
  BY DEF Init, SecretsBlob
<1>3. TypeInv
  BY <1>1 DEF Init, TypeInv, SavesTyped, Blobs, Saves, Maybe, SecretsBlob, Idle
<1>4. PlacesSigned /\ WritersSigned /\ OneDialog
  BY <1>1, <1>2, Apart
     DEF Init, PlacesSigned, WritersSigned, OneDialog, Accept, NoRequest, NoSigning, Idle
<1>5. FreshLogins /\ AgreeInv
  BY <1>1, <1>2, Apart DEF Init, FreshLogins, AgreeInv, Agreed, Synced, Coming, Idle
<1>6. FinalInv
  BY <1>1, Apart DEF Init, FinalInv, Idle
<1> QED BY <1>3, <1>4, <1>5, <1>6 DEF TelegramInv, SignInv

------------------------------------------------------------------------------
\* A writer's next state is one.
LEMMA SaveTyped ==
    ASSUME SavesTyped, NEW w \in Writers, NEW x \in Saves,
           x.at \in {"write", "share", "push"} => x.blob \in Blobs,
           save' = [save EXCEPT ![w] = x]
    PROVE  SavesTyped'
BY DEF SavesTyped, Busy

\* The reader of the blob writes a blob or has nothing to write.
LEMMA ReadTyped ==
    ASSUME SavesTyped, NEW w \in Writers, NEW new \in Blobs, Read(w, new)
    PROVE  SavesTyped'
<1>1. Rest(w) \in Saves /\ Rest(w).at \in {"idle", "drop"}
  BY DEF Rest, Idle, Saves, Maybe
<1>2. [at |-> "write", bytes |-> None, blob |-> new] \in Saves
  BY DEF Saves, Maybe
<1>3. CASE save' = [save EXCEPT ![w] = Rest(w)]
  BY <1>1, <1>3, SaveTyped
<1>4. CASE save' = [save EXCEPT ![w] = [at |-> "write", bytes |-> None, blob |-> new]]
  BY <1>2, <1>4, SaveTyped
<1> QED BY <1>3, <1>4 DEF Read

\* A writer that goes on keeps its bytes and its blob.
LEMMA MoveTyped ==
    ASSUME SavesTyped, NEW w \in Writers,
           NEW x \in {"idle", "bytes", "read", "write", "share", "push", "drop"},
           x \in {"write", "share", "push"} => save[w].blob \in Blobs,
           save' = [save EXCEPT ![w].at = x]
    PROVE  SavesTyped'
<1>1. [save[w] EXCEPT !.at = x] \in Saves /\ [save[w] EXCEPT !.at = x].blob = save[w].blob
      /\ [save[w] EXCEPT !.at = x].at = x
  BY DEF SavesTyped, Saves
<1>2. save' = [save EXCEPT ![w] = [save[w] EXCEPT !.at = x]]
  BY DEF SavesTyped
<1> QED BY <1>1, <1>2, SaveTyped

\* The rotation's blob differs from the vault in the token.
LEMMA RotateTyped ==
    ASSUME vault \in Blobs
    PROVE  /\ [vault EXCEPT !.token = @ + 1] \in Blobs
           /\ [vault EXCEPT !.token = @ + 1].session = vault.session
           /\ [vault EXCEPT !.token = @ + 1] # vault
BY DEF Blobs

\* Every step keeps the types.
LEMMA TypeStep == TypeInv /\ [Next]_vars => TypeInv'
<1> SUFFICES ASSUME TypeInv, [Next]_vars PROVE TypeInv'
  OBVIOUS
<1> USE Apart, SessionTypes DEF TypeInv, Busy, Blobs, Saves, Maybe, Dialogs, Idle,
        host, login, sidecar
<1>1. ASSUME NEW n \in Logins, LoginBegin(n) PROVE TypeInv'
  <2>1. /\ file' = [login |-> n, rev |-> 0] /\ begin' = [begin EXCEPT ![n] = "request"]
        /\ UNCHANGED <<host, ctx, down, up, sidecar, out>>
    BY <1>1 DEF LoginBegin
  <2> QED BY <2>1 DEF SavesTyped
<1>2. ASSUME NEW n \in Logins, CodeRequested(n) PROVE TypeInv'
  BY <1>2 DEF SavesTyped, CodeRequested, ShutDown
<1>3. ASSUME NEW n \in Logins, RequestRefused(n) PROVE TypeInv'
  BY <1>3 DEF SavesTyped, RequestRefused
<1>4. ASSUME NEW n \in Logins, ReadFile(n) PROVE TypeInv'
  BY <1>4 DEF SavesTyped, ReadFile, SessionBytes
<1>5. ASSUME NEW n \in Logins, DropLogin(n) PROVE TypeInv'
  BY <1>5 DEF SavesTyped, DropLogin, ShutDown
<1>6. ASSUME NEW n \in Logins, PersistLogin(n) PROVE TypeInv'
  <2>1. save[Signing(n)].bytes \in Maybe
    BY DEF SavesTyped
  <2>2. SavesTyped'
    BY <1>6, <2>1, ReadTyped DEF PersistLogin
  <2> QED BY <1>6, <2>2 DEF PersistLogin
<1>7. CASE SubmitCode
  <2>1. CASE Accepted
    <3>1. ctx \in Dialogs /\ ctx.login \in Logins /\ Signing(ctx.login) \in Writers
      BY <1>7 DEF SubmitCode
    <3>2. SavesTyped'
      BY <2>1, <3>1, MoveTyped DEF Accepted
    <3>3. file' \in Maybe /\ ctx' \in Dialogs
      BY <2>1, <3>1 DEF Accepted
    <3> QED BY <1>7, <3>2, <3>3 DEF SubmitCode
  <2>2. CASE ~Accepted
    BY <1>7, <2>2 DEF SubmitCode, SavesTyped
  <2> QED BY <2>1, <2>2
<1>8. CASE SubmitPassword
  <2>1. CASE Accepted
    <3>1. ctx \in Dialogs /\ ctx.login \in Logins /\ Signing(ctx.login) \in Writers
      BY <1>8 DEF SubmitPassword
    <3>2. SavesTyped'
      BY <2>1, <3>1, MoveTyped DEF Accepted
    <3>3. file' \in Maybe /\ ctx' \in Dialogs
      BY <2>1, <3>1 DEF Accepted
    <3> QED BY <1>8, <3>2, <3>3 DEF SubmitPassword
  <2>2. CASE ~Accepted
    BY <1>8, <2>2 DEF SubmitPassword, SavesTyped
  <2> QED BY <2>1, <2>2
<1>9. CASE Harvest
  <2>1. Head(up) \in Maybe /\ up' \in Seq(Sessions)
    BY <1>9, Lines DEF Harvest
  <2>2. SavesTyped'
    BY <1>9, <2>1, ReadTyped DEF Harvest
  <2> QED BY <1>9, <2>1, <2>2 DEF Harvest
<1>10. CASE Logout
  <2>1. SavesTyped'
    BY <1>10, ReadTyped DEF Logout
  <2> QED BY <1>10, <2>1 DEF Logout
<1>11. CASE Rotate
  <2>1. [vault EXCEPT !.token = @ + 1] \in Blobs
    BY RotateTyped
  <2>2. Read(Rotating, [vault EXCEPT !.token = @ + 1])
    BY <1>11 DEF Rotate
  <2>3. SavesTyped'
    BY <2>1, <2>2, ReadTyped
  <2> QED BY <1>11, <2>3 DEF Rotate
<1>12. ASSUME NEW w \in Writers, Write(w) PROVE TypeInv'
  <2>1. save[w].blob \in Blobs /\ [save[w] EXCEPT !.at = "share"] \in Saves
    BY <1>12 DEF Write, SavesTyped
  <2>2. save' = [save EXCEPT ![w] = [save[w] EXCEPT !.at = "share"]]
    BY <1>12 DEF Write, SavesTyped
  <2>3. SavesTyped'
    BY <2>1, <2>2, SaveTyped
  <2> QED BY <1>12, <2>1, <2>3 DEF Write
<1>13. ASSUME NEW w \in Writers, WriteFails(w) PROVE TypeInv'
  BY <1>13 DEF SavesTyped, WriteFails
<1>14. ASSUME NEW w \in Writers, Share(w) PROVE TypeInv'
  <2> DEFINE x == IF w = Rotating THEN Idle ELSE [save[w] EXCEPT !.at = "push"]
  <2>1. save[w].blob \in Blobs /\ x \in Saves
        /\ (x.at \in {"write", "share", "push"} => x.blob \in Blobs)
    BY <1>14 DEF Share, SavesTyped
  <2>2. save' = [save EXCEPT ![w] = x]
    BY <1>14 DEF Share, SavesTyped
  <2> HIDE DEF x
  <2>3. SavesTyped'
    BY <2>1, <2>2, SaveTyped
  <2> QED BY <1>14, <2>1, <2>3 DEF Share
<1>15. ASSUME NEW w \in Writers, Push(w) PROVE TypeInv'
  BY <1>15, Appended DEF SavesTyped, Push, Rest
<1>p. ASSUME NEW w \in Writers, PushFails(w) PROVE TypeInv'
  BY <1>p DEF SavesTyped, PushFails, Rest
<1>16. CASE ReadLine
  BY <1>16, Lines DEF SavesTyped, ReadLine, Announce
<1>17. CASE Start
  BY <1>17 DEF SavesTyped, Start
<1>18. CASE PersistSession
  <2>1. live \in Sessions /\ Append(up, live) \in Seq(Sessions)
    BY <1>18, Appended DEF PersistSession
  <2> QED BY <1>18, <2>1 DEF PersistSession, Upstream, Announce, SavesTyped
<1>19. CASE Hear
  BY <1>19 DEF SavesTyped, Hear
<1>20. CASE Tick
  BY <1>20 DEF SavesTyped, Tick
<1>21. CASE Cycle
  BY <1>21 DEF SavesTyped, Cycle
<1>22. CASE UNCHANGED vars
  BY <1>22 DEF vars, SavesTyped
<1> QED BY <1>1, <1>2, <1>3, <1>4, <1>5, <1>6, <1>7, <1>8, <1>9, <1>10, <1>11, <1>12, <1>13, <1>14, <1>15, <1>16, <1>17, <1>18, <1>19, <1>20, <1>21, <1>22, <1>p, Steps

------------------------------------------------------------------------------
(* One step of a writer.                                                     *)

\* A writer that goes on leaves the others alone.
LEMMA Moves ==
    ASSUME SavesTyped, NEW w \in Writers, NEW x, save' = [save EXCEPT ![w].at = x]
    PROVE  /\ save'[w].at = x /\ save'[w].blob = save[w].blob /\ save'[w].bytes = save[w].bytes
           /\ \A v \in Writers \ {w} : save'[v] = save[v]
BY DEF SavesTyped, Saves

\* So does one whose state is replaced.
LEMMA Replaced ==
    ASSUME SavesTyped, NEW w \in Writers, NEW x, save' = [save EXCEPT ![w] = x]
    PROVE  save'[w] = x /\ \A v \in Writers \ {w} : save'[v] = save[v]
BY DEF SavesTyped

\* The reader of the blob has something to write, or nothing and is done.
LEMMA Reads ==
    ASSUME SavesTyped, NEW w \in Writers, NEW new, Read(w, new)
    PROVE  /\ \A v \in Writers \ {w} : save'[v] = save[v]
           /\ \/ w # Rotating /\ new = vault /\ save'[w] = Rest(w)
              \/ ~ (w # Rotating /\ new = vault)
                 /\ save'[w].at = "write" /\ save'[w].blob = new
BY DEF SavesTyped, Read

\* A login has its dialog to drop at the end.
LEMMA Rests ==
    /\ \A w \in Writers : Rest(w).at \in {"idle", "drop"}
    /\ \A n \in Logins : Rest(Signing(n)).at = "drop"
    /\ \A w \in {LoggingOut, Harvesting, Rotating} : Rest(w) = Idle /\ Rest(w).at = "idle"
BY Apart DEF Rest, Idle

------------------------------------------------------------------------------
(* What the proofs are about, action by action.                              *)

\* A login without a code writes nothing.
LEMMA FreshStep == TypeInv /\ FreshLogins /\ [Next]_vars => FreshLogins'
<1> SUFFICES ASSUME TypeInv, FreshLogins, [Next]_vars PROVE FreshLogins'
  OBVIOUS
<1>a. SavesTyped /\ ctx \in Dialogs \cup {None} /\ begin \in [Logins -> {"no", "request", "done"}]
  BY DEF TypeInv
<1>b. \A n \in Logins, w \in {LoggingOut, Harvesting, Rotating} : Signing(n) # w
  BY Apart
<1>1. ASSUME NEW n \in Logins, LoginBegin(n) PROVE FreshLogins'
  BY <1>1, <1>a DEF FreshLogins, LoginBegin, host
<1>2. ASSUME NEW n \in Logins, CodeRequested(n) PROVE FreshLogins'
  BY <1>2, <1>a DEF FreshLogins, CodeRequested, host
<1>3. ASSUME NEW n \in Logins, RequestRefused(n) PROVE FreshLogins'
  BY <1>3, <1>a DEF FreshLogins, RequestRefused, host
<1>4. ASSUME NEW n \in Logins, ReadFile(n) PROVE FreshLogins'
  <2>1. save[Signing(n)].at # "idle" /\ \A v \in Writers \ {Signing(n)} : save'[v] = save[v]
    BY <1>4, <1>a, Apart, Replaced DEF ReadFile
  <2>2. \A m \in Logins : save[Signing(m)].at = "idle" => save'[Signing(m)] = save[Signing(m)]
    BY <2>1, Apart
  <2> QED BY <1>4, <2>2, <1>a DEF FreshLogins, ReadFile, login, Dialogs
<1>5. ASSUME NEW n \in Logins, DropLogin(n) PROVE FreshLogins'
  <2>1. save[Signing(n)].at # "idle" /\ \A v \in Writers \ {Signing(n)} : save'[v] = save[v]
    BY <1>5, <1>a, Apart, Replaced DEF DropLogin
  <2>2. \A m \in Logins : save[Signing(m)].at = "idle" => save'[Signing(m)] = save[Signing(m)]
    BY <2>1, Apart
  <2> QED BY <1>5, <2>2, <1>a DEF FreshLogins, DropLogin, login, Dialogs
<1>6. ASSUME NEW n \in Logins, PersistLogin(n) PROVE FreshLogins'
  <2>1. save[Signing(n)].at # "idle" /\ \A v \in Writers \ {Signing(n)} : save'[v] = save[v]
    BY <1>6, <1>a, Apart, Reads DEF PersistLogin
  <2>2. \A m \in Logins : save[Signing(m)].at = "idle" => save'[Signing(m)] = save[Signing(m)]
    BY <2>1, Apart
  <2> QED BY <1>6, <2>2, <1>a DEF FreshLogins, PersistLogin, login, Dialogs
<1>7. CASE SubmitCode
  <2>1. ctx \in Dialogs /\ ctx.login \in Logins /\ Signing(ctx.login) \in Writers
    BY <1>7, <1>a, Apart DEF SubmitCode, Dialogs
  <2>2. begin[ctx.login] = "done" /\ begin' = begin
    BY <1>7, <1>a, <2>1 DEF FreshLogins, SubmitCode
  <2>3. CASE Accepted
    <3>1. \A v \in Writers \ {Signing(ctx.login)} : save'[v] = save[v]
      BY <1>a, <2>1, <2>3, Moves DEF Accepted
    <3>2. ctx'.holds = "nothing" /\ ctx'.login = ctx.login
      BY <2>1, <2>3 DEF Accepted, Dialogs
    <3> QED BY <2>1, <2>2, <3>1, <3>2, Apart DEF FreshLogins
  <2>4. CASE ~Accepted
    <3>1. save' = save /\ ctx'.login = ctx.login
      BY <1>7, <2>1, <2>4 DEF SubmitCode, Dialogs
    <3> QED BY <1>7, <2>1, <2>2, <3>1 DEF FreshLogins, SubmitCode
  <2> QED BY <2>3, <2>4
<1>8. CASE SubmitPassword
  <2>1. ctx \in Dialogs /\ ctx.login \in Logins /\ Signing(ctx.login) \in Writers
    BY <1>8, <1>a, Apart DEF SubmitPassword, Dialogs
  <2>2. begin[ctx.login] = "done" /\ begin' = begin
    BY <1>8, <1>a, <2>1 DEF FreshLogins, SubmitPassword
  <2>3. CASE Accepted
    <3>1. \A v \in Writers \ {Signing(ctx.login)} : save'[v] = save[v]
      BY <1>a, <2>1, <2>3, Moves DEF Accepted
    <3>2. ctx'.holds = "nothing" /\ ctx'.login = ctx.login
      BY <2>1, <2>3 DEF Accepted, Dialogs
    <3> QED BY <2>1, <2>2, <3>1, <3>2, Apart DEF FreshLogins
  <2>4. CASE ~Accepted
    <3>1. save' = save /\ ctx'.login = ctx.login
      BY <1>8, <2>1, <2>4 DEF SubmitPassword, Dialogs
    <3> QED BY <1>8, <2>1, <2>2, <3>1 DEF FreshLogins, SubmitPassword
  <2> QED BY <2>3, <2>4
<1>9. CASE Harvest
  <2>1. \A n \in Logins : save'[Signing(n)] = save[Signing(n)]
    BY <1>9, <1>a, <1>b, Apart, Reads DEF Harvest
  <2> QED BY <1>9, <1>a, <2>1 DEF FreshLogins, Harvest, login, Dialogs
<1>10. CASE Logout
  <2>1. \A n \in Logins : save'[Signing(n)] = save[Signing(n)]
    BY <1>10, <1>a, <1>b, Apart, Reads DEF Logout
  <2> QED BY <1>10, <1>a, <2>1 DEF FreshLogins, Logout, login, Dialogs
<1>11. CASE Rotate
  <2>1. \A n \in Logins : save'[Signing(n)] = save[Signing(n)]
    BY <1>11, <1>a, <1>b, Apart, Reads DEF Rotate
  <2> QED BY <1>11, <1>a, <2>1 DEF FreshLogins, Rotate, login, Dialogs
<1>12. ASSUME NEW w \in Writers, Write(w) PROVE FreshLogins'
  <2>1. save[w].at # "idle" /\ \A v \in Writers \ {w} : save'[v] = save[v]
    BY <1>12, <1>a, Moves, Replaced DEF Write
  <2>2. \A n \in Logins : save[Signing(n)].at = "idle" => save'[Signing(n)] = save[Signing(n)]
    BY <2>1, Apart
  <2> QED BY <1>12, <2>2, <1>a DEF FreshLogins, Write, login, Dialogs
<1>13. ASSUME NEW w \in Writers, WriteFails(w) PROVE FreshLogins'
  <2>1. save[w].at # "idle" /\ \A v \in Writers \ {w} : save'[v] = save[v]
    BY <1>13, <1>a, Moves, Replaced DEF WriteFails
  <2>2. \A n \in Logins : save[Signing(n)].at = "idle" => save'[Signing(n)] = save[Signing(n)]
    BY <2>1, Apart
  <2> QED BY <1>13, <2>2, <1>a DEF FreshLogins, WriteFails, login, Dialogs
<1>p. ASSUME NEW w \in Writers, PushFails(w) PROVE FreshLogins'
  <2>1. save[w].at # "idle" /\ \A v \in Writers \ {w} : save'[v] = save[v]
    BY <1>p, <1>a, Moves, Replaced DEF PushFails
  <2>2. \A n \in Logins : save[Signing(n)].at = "idle" => save'[Signing(n)] = save[Signing(n)]
    BY <2>1, Apart
  <2> QED BY <1>p, <2>2, <1>a DEF FreshLogins, PushFails, login, Dialogs
<1>14. ASSUME NEW w \in Writers, Share(w) PROVE FreshLogins'
  <2>1. save[w].at # "idle" /\ \A v \in Writers \ {w} : save'[v] = save[v]
    BY <1>14, <1>a, Moves, Replaced DEF Share
  <2>2. \A n \in Logins : save[Signing(n)].at = "idle" => save'[Signing(n)] = save[Signing(n)]
    BY <2>1, Apart
  <2> QED BY <1>14, <2>2, <1>a DEF FreshLogins, Share, login, Dialogs
<1>15. ASSUME NEW w \in Writers, Push(w) PROVE FreshLogins'
  <2>1. save[w].at # "idle" /\ \A v \in Writers \ {w} : save'[v] = save[v]
    BY <1>15, <1>a, Moves, Replaced DEF Push
  <2>2. \A n \in Logins : save[Signing(n)].at = "idle" => save'[Signing(n)] = save[Signing(n)]
    BY <2>1, Apart
  <2> QED BY <1>15, <2>2, <1>a DEF FreshLogins, Push, login, Dialogs
<1>16. CASE ReadLine
  BY <1>16 DEF FreshLogins, ReadLine, host, login
<1>17. CASE Start
  BY <1>17 DEF FreshLogins, Start, host, login
<1>18. CASE PersistSession
  BY <1>18 DEF FreshLogins, PersistSession, host, login
<1>19. CASE Hear
  BY <1>19 DEF FreshLogins, Hear, host, login
<1>20. CASE Tick
  BY <1>20 DEF FreshLogins, Tick, host, login
<1>21. CASE Cycle
  BY <1>21 DEF FreshLogins, Cycle, host, login
<1>22. CASE UNCHANGED vars
  BY <1>22 DEF FreshLogins, vars, host, login
<1> QED BY Steps, <1>1, <1>2, <1>3, <1>4, <1>5, <1>6, <1>7, <1>8, <1>9, <1>10, <1>11,
            <1>12, <1>13, <1>14, <1>15, <1>16, <1>17, <1>18, <1>19, <1>20, <1>21, <1>22, <1>p

\* Nothing brings a session back after a logout that nothing is in the way of.
LEMMA FinalStep == TypeInv /\ FinalInv /\ [Next]_vars => FinalInv'
<1> SUFFICES ASSUME TypeInv, FinalInv, [Next]_vars PROVE FinalInv'
  OBVIOUS
<1>a. SavesTyped /\ vault \in Blobs
  BY DEF TypeInv
<1>b. \A n \in Logins : Signing(n) \in Writers /\ Signing(n) # LoggingOut
  BY Apart
<1>c. LoggingOut \in Writers /\ Harvesting \in Writers /\ Rotating \in Writers
      /\ LoggingOut # Harvesting /\ LoggingOut # Rotating
  BY Apart
<1>1. ASSUME NEW n \in Logins, LoginBegin(n) PROVE FinalInv'
  BY <1>1 DEF FinalInv, Busy, LoginBegin, host, sidecar
<1>2. ASSUME NEW n \in Logins, CodeRequested(n) PROVE FinalInv'
  BY <1>2 DEF FinalInv, Busy, CodeRequested, host, sidecar
<1>3. ASSUME NEW n \in Logins, RequestRefused(n) PROVE FinalInv'
  BY <1>3 DEF FinalInv, Busy, RequestRefused, host, sidecar
<1>4. ASSUME NEW n \in Logins, ReadFile(n) PROVE FinalInv'
  <2>1. \A v \in Writers \ {Signing(n)} : save'[v] = save[v]
    BY <1>4, <1>a, <1>b, Replaced DEF ReadFile
  <2> QED BY <1>4, <1>b, <1>c, <2>1 DEF FinalInv, Busy, ReadFile
<1>5. ASSUME NEW n \in Logins, DropLogin(n) PROVE FinalInv'
  <2>1. save'[Signing(n)] = Idle /\ \A v \in Writers \ {Signing(n)} : save'[v] = save[v]
    BY <1>5, <1>a, <1>b, Replaced DEF DropLogin
  <2> QED BY <1>5, <1>b, <1>c, <2>1 DEF FinalInv, Busy, DropLogin, Idle, sidecar
<1>6. ASSUME NEW n \in Logins, PersistLogin(n) PROVE FinalInv'
  <2>1. out \notin {"told", "final"} /\ out' = out
    BY <1>6, <1>b DEF FinalInv, PersistLogin
  <2>2. save'[LoggingOut] = save[LoggingOut]
    BY <1>6, <1>a, <1>b, <1>c, Reads DEF PersistLogin
  <2> QED BY <2>1, <2>2 DEF FinalInv, Busy
<1>7. CASE SubmitCode
  <2>1. CASE Accepted
    <3>1. ctx.login \in Logins
      BY <1>7 DEF SubmitCode, TypeInv, Dialogs
    <3>2. /\ save'[Signing(ctx.login)].at = "bytes"
          /\ \A v \in Writers \ {Signing(ctx.login)} : save'[v] = save[v]
      BY <1>a, <1>b, <2>1, <3>1, Moves DEF Accepted
    <3> QED BY <1>7, <1>b, <1>c, <3>1, <3>2 DEF FinalInv, Busy, SubmitCode, sidecar
  <2>2. CASE ~Accepted
    BY <1>7, <2>2 DEF FinalInv, Busy, SubmitCode, sidecar
  <2> QED BY <2>1, <2>2
<1>8. CASE SubmitPassword
  <2>1. CASE Accepted
    <3>1. ctx.login \in Logins
      BY <1>8 DEF SubmitPassword, TypeInv, Dialogs
    <3>2. /\ save'[Signing(ctx.login)].at = "bytes"
          /\ \A v \in Writers \ {Signing(ctx.login)} : save'[v] = save[v]
      BY <1>a, <1>b, <2>1, <3>1, Moves DEF Accepted
    <3> QED BY <1>8, <1>b, <1>c, <3>1, <3>2 DEF FinalInv, Busy, SubmitPassword, sidecar
  <2>2. CASE ~Accepted
    BY <1>8, <2>2 DEF FinalInv, Busy, SubmitPassword, sidecar
  <2> QED BY <2>1, <2>2
<1>9. CASE Harvest
  <2>1. out \notin {"told", "final"} /\ out' = out
    BY <1>9 DEF FinalInv, Harvest
  <2>2. save'[LoggingOut] = save[LoggingOut]
    BY <1>9, <1>a, <1>c, Reads DEF Harvest
  <2> QED BY <2>1, <2>2 DEF FinalInv, Busy
<1>10. CASE Logout
  <2>1. [vault EXCEPT !.session = None].session = None
    BY <1>a DEF Blobs
  <2>2. /\ \A v \in Writers \ {LoggingOut} : save'[v] = save[v]
        /\ save'[LoggingOut].at # "read"
        /\ save'[LoggingOut].at \in {"write", "share", "push"} => save'[LoggingOut].blob.session = None
    BY <1>10, <1>a, <1>c, <2>1, Reads, Rests DEF Logout
  <2> QED BY <1>10, <1>c, <2>2 DEF FinalInv, Busy, Logout, sidecar
<1>11. CASE Rotate
  <2>1. /\ \A v \in Writers \ {Rotating} : save'[v] = save[v]
        /\ save'[Rotating].at = "write" /\ save'[Rotating].blob.session = vault.session
    BY <1>11, <1>a, <1>c, Reads, RotateTyped DEF Rotate
  <2> QED BY <1>11, <1>c, <2>1 DEF FinalInv, Busy, Rotate, sidecar
<1>12. ASSUME NEW w \in Writers, Write(w) PROVE FinalInv'
  <2>1. /\ save'[w].at = "share" /\ save'[w].blob = save[w].blob
        /\ \A v \in Writers \ {w} : save'[v] = save[v]
    BY <1>12, <1>a, Moves DEF Write
  <2>2. CASE w # LoggingOut
    <3>1. out' = out /\ vault' = save[w].blob /\ UNCHANGED <<up, down, loop, store, heard>>
      BY <1>12, <2>2 DEF Write, sidecar
    <3>2. Busy(w)
      BY <1>12 DEF Busy, Write
    <3>3. Busy(LoggingOut)' => save'[LoggingOut].blob.session = None
      BY <1>c, <2>1, <2>2 DEF FinalInv, Busy
    <3>4. ASSUME out \in {"told", "final"}
          PROVE  /\ vault'.session = None
                 /\ \A v \in Writers : /\ save'[v].at # "read"
                                       /\ Busy(v)' => save'[v].blob.session = None
      BY <2>1, <3>1, <3>2, <3>4 DEF FinalInv, Busy
    <3> QED BY <3>1, <3>3, <3>4 DEF FinalInv
  <2>3. CASE w = LoggingOut
    <3>1. out' = "no" \/ (/\ out' = "told" /\ up = <<>> /\ loop \in {"off", "wait"}
                          /\ \A v \in Writers \ {w} : save[v].at \in {"idle", "drop"})
      BY <1>12, <2>3 DEF Write
    <3>2. vault'.session = None /\ save'[w].blob.session = None
      BY <1>12, <2>1, <2>3 DEF FinalInv, Busy, Write
    <3> QED BY <1>12, <2>1, <2>3, <3>1, <3>2 DEF FinalInv, Busy, Write, sidecar
  <2> QED BY <2>2, <2>3
<1>13. ASSUME NEW w \in Writers, WriteFails(w) PROVE FinalInv'
  <2>1. save'[w] = Idle /\ \A v \in Writers \ {w} : save'[v] = save[v]
    BY <1>13, <1>a, Replaced DEF WriteFails
  <2> QED BY <1>13, <1>c, <2>1 DEF FinalInv, Busy, WriteFails, Idle, sidecar
<1>p. ASSUME NEW w \in Writers, PushFails(w) PROVE FinalInv'
  <2>1. save'[w].at \in {"idle", "drop"} /\ \A v \in Writers \ {w} : save'[v] = save[v]
    BY <1>p, <1>a, Replaced, Rests DEF PushFails
  <2> QED BY <1>p, <1>c, <2>1 DEF FinalInv, Busy, PushFails, sidecar
<1>14. ASSUME NEW w \in Writers, Share(w) PROVE FinalInv'
  <2>1. /\ \A v \in Writers \ {w} : save'[v] = save[v]
        /\ save'[w].at = "idle" \/ (save'[w].at = "push" /\ save'[w].blob = save[w].blob)
    <3>1. CASE w = Rotating
      <4>1. save'[w] = Idle /\ \A v \in Writers \ {w} : save'[v] = save[v]
        BY <1>14, <1>a, <3>1, Replaced DEF Share
      <4> QED BY <4>1 DEF Idle
    <3>2. CASE w # Rotating
      <4>1. save' = [save EXCEPT ![w].at = "push"]
        BY <1>14, <1>a, <3>2 DEF Share, SavesTyped
      <4> QED BY <1>a, <4>1, Moves
    <3> QED BY <3>1, <3>2
  <2> QED BY <1>14, <1>c, <2>1 DEF FinalInv, Busy, Share, sidecar
<1>15. ASSUME NEW w \in Writers, Push(w) PROVE FinalInv'
  <2>1. save'[w].at \in {"idle", "drop"} /\ \A v \in Writers \ {w} : save'[v] = save[v]
    BY <1>15, <1>a, Replaced, Rests DEF Push
  <2>2. ASSUME out = "final" PROVE \A i \in DOMAIN down' : down'[i] = None
    <3>1. save[w].blob.session = None /\ \A i \in DOMAIN down : down[i] = None
      BY <1>15, <2>2 DEF FinalInv, Busy, Push
    <3>2. down \in Seq(Maybe) /\ None \in Maybe /\ down' = Append(down, None)
      BY <1>15, <3>1 DEF TypeInv, Maybe, Push
    <3> QED BY <3>1, <3>2, Appended
  <2> QED BY <1>15, <1>c, <2>1, <2>2 DEF FinalInv, Busy, Push, sidecar
<1>16. CASE ReadLine
  <2>1. CASE out' = "final"
    <3>1. \A i \in DOMAIN down : down[i] = None
      BY <1>16, <2>1 DEF FinalInv, ReadLine
    <3>2. store' = None /\ \A i \in DOMAIN down' : down'[i] = None
      BY <1>16, <3>1, Lines DEF ReadLine
    <3>3. loop' = "wait" => heard' = "cleared"
      BY <1>16, <3>2 DEF ReadLine, Announce
    <3>4. out \in {"told", "final"}
      BY <1>16, <2>1 DEF ReadLine
    <3> QED BY <1>16, <2>1, <3>2, <3>3, <3>4 DEF FinalInv, Busy, ReadLine, host
  <2>2. CASE out' # "final"
    BY <1>16, <2>2 DEF FinalInv, Busy, ReadLine, host
  <2> QED BY <2>1, <2>2
<1>17. CASE Start
  <2>1. out' \notin {"told", "final"}
    BY <1>17 DEF FinalInv, Start, TypeInv
  <2> QED BY <1>17, <2>1 DEF FinalInv, Busy, Start, host
<1>18. CASE PersistSession
  <2>1. out \notin {"told", "final"}
    BY <1>18 DEF FinalInv, PersistSession
  <2> QED BY <1>18, <2>1 DEF FinalInv, Busy, PersistSession, host
<1>19. CASE Hear
  BY <1>19 DEF FinalInv, Busy, Hear, host
<1>20. CASE Tick
  <2>1. out' \notin {"told", "final"}
    BY <1>20, NoneAssumption DEF FinalInv, Tick, TypeInv
  <2> QED BY <1>20, <2>1 DEF FinalInv, Busy, Tick, host
<1>21. CASE Cycle
  <2>1. out \notin {"told", "final"}
    BY <1>21 DEF FinalInv, Cycle
  <2> QED BY <1>21, <2>1 DEF FinalInv, Busy, Cycle, host
<1>22. CASE UNCHANGED vars
  BY <1>22 DEF FinalInv, Busy, vars, host, sidecar
<1> QED BY Steps, <1>1, <1>2, <1>3, <1>4, <1>5, <1>6, <1>7, <1>8, <1>9, <1>10, <1>11,
            <1>12, <1>13, <1>14, <1>15, <1>16, <1>17, <1>18, <1>19, <1>20, <1>21, <1>22, <1>p

\* What is on its way stays so while nobody writes the vault.
LEMMA SyncedKept ==
    ASSUME TypeInv, UNCHANGED <<vault, down, up, store>>, Synced
    PROVE  Synced'
BY DEF Synced, Coming

\* The line read is the sidecar's session now, or the last line is what it was.
LEMMA LineRead == ASSUME TypeInv, ReadLine PROVE Coming' = Coming
<1>1. down \in Seq(Maybe) /\ down # <<>> /\ down' = Tail(down) /\ store' = Head(down)
  BY DEF TypeInv, ReadLine
<1>2. Len(down) \in Nat /\ Len(down) # 0
  BY <1>1, EmptySeq, LenProperties
<1>3. /\ Head(down) = down[1] /\ Tail(down) \in Seq(Maybe) /\ Len(Tail(down)) = Len(down) - 1
      /\ \A i \in 1..Len(Tail(down)) : Tail(down)[i] = down[i + 1]
  BY <1>1, HeadTailProperties
<1>4. CASE Len(down) = 1
  BY <1>1, <1>3, <1>4, EmptySeq DEF Coming
<1>5. CASE Len(down) # 1
  <2>1. Len(Tail(down)) # 0 /\ Len(Tail(down)) \in 1..Len(Tail(down))
    BY <1>2, <1>3, <1>5
  <2>2. Tail(down) # <<>>
    BY <2>1, EmptySeq
  <2>3. Tail(down)[Len(Tail(down))] = down[Len(down)]
    BY <1>2, <1>3, <2>1
  <2> QED BY <1>1, <2>2, <2>3 DEF Coming
<1> QED BY <1>4, <1>5

\* When the only writer's line is sent, the three agree.
LEMMA Handed ==
    ASSUME TypeInv, NEW w \in Writers, Push(w), cached = vault, save[w].blob = vault,
           \A v \in Writers \ {w} : ~Busy(v)
    PROVE  Agreed'
<1>a. SavesTyped /\ vault \in Blobs
  BY DEF TypeInv
<1>1. UNCHANGED <<vault, cached>> /\ down' = Append(down, vault.session)
  BY DEF Push
<1>2. save'[w].at \in {"idle", "drop"} /\ \A v \in Writers \ {w} : save'[v] = save[v]
  BY <1>a, Replaced, Rests DEF Push
<1>3. \A v \in Writers : ~Busy(v)'
  BY <1>2 DEF Busy
<1>4. down \in Seq(Maybe) /\ vault.session \in Maybe
  BY <1>a DEF TypeInv, Blobs
<1>5. Synced'
  BY <1>1, <1>4, Appended DEF Synced, Coming
<1> QED BY Apart, <1>1, <1>3, <1>5 DEF Agreed, Busy

\* Vault, host and sidecar stay agreed while nothing fails or overlaps.
LEMMA AgreedStep ==
    ASSUME TypeInv, FreshLogins, Agreed, [Next]_vars, mixed' = "no"
    PROVE  Agreed'
<1>a. SavesTyped /\ vault \in Blobs
  BY DEF TypeInv
<1>b. \A n \in Logins : Signing(n) \in Writers /\ Signing(n) # Rotating
  BY Apart
<1>c. LoggingOut \in Writers /\ Harvesting \in Writers /\ Rotating \in Writers
      /\ Rotating # LoggingOut /\ Rotating # Harvesting
  BY Apart
\* A step that neither writes nor reads a line, of a writer without a blob or of none.
<1>d. ASSUME UNCHANGED <<vault, cached, down, up, store>>, mixed' = mixed,
             \A w \in Writers : save'[w] = save[w] \/ (~Busy(w) /\ ~Busy(w)')
      PROVE  Agreed'
  <2>1. \A w \in Writers : Busy(w)' <=> Busy(w)
    BY <1>d DEF Busy
  <2>2. \A w \in Writers : Busy(w) => save'[w] = save[w]
    BY <1>d
  <2>3. Synced => Synced'
    BY <1>d, SyncedKept
  <2>4. /\ \A v, w \in Writers : Busy(v)' /\ Busy(w)' => v = w
        /\ (\A w \in Writers : ~Busy(w)') => cached' = vault' /\ Synced'
        /\ Busy(Rotating)' => Synced'
    BY <1>c, <1>d, <2>1, <2>3 DEF Agreed
  <2>5. \A w \in Writers :
              /\ save'[w].at = "write" => cached' = vault'
              /\ save'[w].at \in {"share", "push"} => save'[w].blob = vault'
              /\ save'[w].at = "push" => cached' = vault'
    BY <1>d, <2>1, <2>2 DEF Agreed, Busy
  <2>6. /\ save'[Rotating].at # "push"
        /\ save'[Rotating].at = "write" => save'[Rotating].blob.session = vault'.session
    BY <1>c, <1>d, <2>1, <2>2 DEF Agreed, Busy
  <2> QED BY <2>4, <2>5, <2>6 DEF Agreed
\* The reader of the blob is the only writer, if it is one.
<1>e. ASSUME NEW w \in Writers, NEW new, Read(w, new), UNCHANGED <<vault, cached>>,
             w = Rotating => new.session = vault.session,
             w = Rotating \/ new = vault => (Synced => Synced')
      PROVE  Agreed'
  <2>1. \A v \in Writers : ~Busy(v)
    BY <1>e DEF Read, Untouched
  <2>2. cached = vault /\ Synced
    BY <2>1 DEF Agreed
  <2>3. /\ \A v \in Writers \ {w} : ~Busy(v)'
        /\ \/ w # Rotating /\ new = vault /\ ~Busy(w)'
           \/ ~ (w # Rotating /\ new = vault) /\ save'[w].at = "write" /\ save'[w].blob = new
    BY <1>a, <1>e, <2>1, Reads, Rests DEF Busy
  <2> QED BY <1>c, <1>e, <2>2, <2>3 DEF Agreed, Busy
<1>1. ASSUME NEW n \in Logins, LoginBegin(n) PROVE Agreed'
  BY <1>1, <1>d DEF LoginBegin, host, sidecar
<1>2. ASSUME NEW n \in Logins, CodeRequested(n) PROVE Agreed'
  BY <1>2, <1>d DEF CodeRequested, host, sidecar
<1>3. ASSUME NEW n \in Logins, RequestRefused(n) PROVE Agreed'
  BY <1>3, <1>d DEF RequestRefused, host, sidecar
<1>4. ASSUME NEW n \in Logins, ReadFile(n) PROVE Agreed'
  <2> DEFINE x == IF SessionBytes = None THEN Idle
                  ELSE [Idle EXCEPT !.at = "read", !.bytes = SessionBytes]
  <2>a. x.at \in {"idle", "read"}
    BY DEF Idle
  <2>b. save' = [save EXCEPT ![Signing(n)] = x]
    BY <1>4 DEF ReadFile
  <2> HIDE DEF x
  <2>1. save'[Signing(n)].at \in {"idle", "read"} /\ \A v \in Writers \ {Signing(n)} : save'[v] = save[v]
    BY <1>a, <1>b, <2>a, <2>b, Replaced
  <2>2. \A w \in Writers : save'[w] = save[w] \/ (~Busy(w) /\ ~Busy(w)')
    BY <1>4, <2>1 DEF Busy, ReadFile
  <2> QED BY <1>4, <1>d, <2>2 DEF ReadFile, sidecar
<1>5. ASSUME NEW n \in Logins, DropLogin(n) PROVE Agreed'
  <2>1. save'[Signing(n)] = Idle /\ \A v \in Writers \ {Signing(n)} : save'[v] = save[v]
    BY <1>5, <1>a, <1>b, Replaced DEF DropLogin
  <2>2. \A w \in Writers : save'[w] = save[w] \/ (~Busy(w) /\ ~Busy(w)')
    BY <1>5, <2>1 DEF Busy, DropLogin, Idle
  <2> QED BY <1>5, <1>d, <2>2 DEF DropLogin, sidecar
<1>6. ASSUME NEW n \in Logins, PersistLogin(n) PROVE Agreed'
  <2>1. Synced => Synced'
    BY <1>6, SyncedKept DEF PersistLogin, sidecar
  <2> QED BY <1>6, <1>b, <1>e, <2>1 DEF PersistLogin
<1>7. CASE SubmitCode
  <2>1. CASE Accepted
    <3>1. ctx # None /\ ctx.holds # "nothing" /\ ctx.login \in Logins
      BY <1>7 DEF SubmitCode, TypeInv, Dialogs
    <3>2. save[Signing(ctx.login)].at = "idle"
      BY <3>1 DEF FreshLogins
    <3>3. /\ save'[Signing(ctx.login)].at = "bytes"
          /\ \A v \in Writers \ {Signing(ctx.login)} : save'[v] = save[v]
      BY <1>a, <1>b, <2>1, <3>1, Moves DEF Accepted
    <3>4. \A w \in Writers : save'[w] = save[w] \/ (~Busy(w) /\ ~Busy(w)')
      BY <3>2, <3>3 DEF Busy
    <3> QED BY <1>7, <1>d, <3>4 DEF SubmitCode, sidecar
  <2>2. CASE ~Accepted
    BY <1>7, <1>d, <2>2 DEF SubmitCode, sidecar
  <2> QED BY <2>1, <2>2
<1>8. CASE SubmitPassword
  <2>1. CASE Accepted
    <3>1. ctx # None /\ ctx.holds # "nothing" /\ ctx.login \in Logins
      BY <1>8 DEF SubmitPassword, TypeInv, Dialogs
    <3>2. save[Signing(ctx.login)].at = "idle"
      BY <3>1 DEF FreshLogins
    <3>3. /\ save'[Signing(ctx.login)].at = "bytes"
          /\ \A v \in Writers \ {Signing(ctx.login)} : save'[v] = save[v]
      BY <1>a, <1>b, <2>1, <3>1, Moves DEF Accepted
    <3>4. \A w \in Writers : save'[w] = save[w] \/ (~Busy(w) /\ ~Busy(w)')
      BY <3>2, <3>3 DEF Busy
    <3> QED BY <1>8, <1>d, <3>4 DEF SubmitPassword, sidecar
  <2>2. CASE ~Accepted
    BY <1>8, <1>d, <2>2 DEF SubmitPassword, sidecar
  <2> QED BY <2>1, <2>2
<1>9. CASE Harvest
  <2>1. ASSUME [vault EXCEPT !.session = Head(up)] = vault, Synced PROVE Synced'
    <3>1. Head(up) = vault.session
      BY <1>a, <2>1 DEF Blobs
    <3>2. UNCHANGED <<vault, down, store>> /\ up' = Tail(up) /\ Coming' = Coming /\ up # <<>>
      BY <1>9 DEF Harvest, sidecar, Coming
    <3>3. ASSUME NEW i \in DOMAIN up, up[i] # vault.session
          PROVE  \E k \in DOMAIN Tail(up) : Tail(up)[k] # vault.session
      <4>1. up \in Seq(Sessions) /\ DOMAIN up = 1..Len(up) /\ Len(up) \in Nat /\ i # 1
        BY <3>1, <3>2, <3>3, Lines, LenProperties DEF TypeInv
      <4>2. /\ Tail(up) \in Seq(Sessions) /\ Len(Tail(up)) = Len(up) - 1
            /\ \A k \in 1..Len(Tail(up)) : Tail(up)[k] = up[k + 1]
        BY <3>2, <4>1, HeadTailProperties
      <4>3. i - 1 \in DOMAIN Tail(up) /\ Tail(up)[i - 1] = up[i]
        BY <4>1, <4>2, LenProperties
      <4> QED BY <3>3, <4>3
    <3> QED BY <2>1, <3>2, <3>3 DEF Synced
  <2> QED BY <1>9, <1>c, <1>e, <2>1 DEF Harvest
<1>10. CASE Logout
  <2>1. Synced => Synced'
    BY <1>10, SyncedKept DEF Logout, sidecar
  <2> QED BY <1>10, <1>c, <1>e, <2>1 DEF Logout
<1>11. CASE Rotate
  <2>1. Synced => Synced'
    BY <1>11, SyncedKept DEF Rotate, sidecar
  <2> QED BY <1>11, <1>a, <1>c, <1>e, <2>1, RotateTyped DEF Rotate
<1>12. ASSUME NEW w \in Writers, Write(w) PROVE Agreed'
  <2>1. /\ save'[w].at = "share" /\ save'[w].blob = save[w].blob
        /\ \A v \in Writers \ {w} : save'[v] = save[v]
    BY <1>12, <1>a, Moves DEF Write
  <2>2. vault' = save[w].blob /\ Busy(w) /\ Busy(w)'
    BY <1>12, <2>1 DEF Write, Busy
  <2>3. \A v \in Writers \ {w} : ~Busy(v) /\ ~Busy(v)'
    BY <2>1, <2>2 DEF Agreed, Busy
  <2>4. w = Rotating => Synced'
    BY <1>12, <2>2 DEF Agreed, Write, Synced, Coming, sidecar
  <2> QED BY <1>c, <2>1, <2>2, <2>3, <2>4 DEF Agreed, Busy
<1>13. ASSUME NEW w \in Writers, WriteFails(w) PROVE Agreed'
  BY <1>13 DEF WriteFails
<1>p. ASSUME NEW w \in Writers, PushFails(w) PROVE Agreed'
  BY <1>p DEF PushFails
<1>14. ASSUME NEW w \in Writers, Share(w) PROVE Agreed'
  <2>1. Busy(w) /\ cached' = vault /\ save[w].blob = vault /\ vault' = vault
    BY <1>14 DEF Share, Busy, Agreed
  <2>2. \A v \in Writers \ {w} : ~Busy(v)
    BY <2>1 DEF Agreed
  <2>3. CASE w = Rotating
    <3>1. save'[w] = Idle /\ \A v \in Writers \ {w} : save'[v] = save[v]
      BY <1>14, <1>a, <2>3, Replaced DEF Share
    <3>2. \A v \in Writers : ~Busy(v)'
      BY <2>2, <3>1 DEF Busy, Idle
    <3>3. Synced'
      BY <1>14, <2>1, <2>3, SyncedKept DEF Agreed, Share, sidecar
    <3> QED BY <1>c, <2>1, <3>2, <3>3 DEF Agreed, Busy
  <2>4. CASE w # Rotating
    <3>1. save' = [save EXCEPT ![w].at = "push"]
      BY <1>14, <1>a, <2>4 DEF Share, SavesTyped
    <3>2. /\ save'[w].at = "push" /\ save'[w].blob = vault
          /\ \A v \in Writers \ {w} : save'[v] = save[v]
      BY <1>a, <2>1, <3>1, Moves
    <3> QED BY <1>c, <2>1, <2>2, <2>4, <3>2 DEF Agreed, Busy
  <2> QED BY <2>3, <2>4
<1>15. ASSUME NEW w \in Writers, Push(w) PROVE Agreed'
  <2>1. /\ Busy(w) /\ cached = vault /\ save[w].blob = vault
        /\ \A v \in Writers \ {w} : ~Busy(v)
    BY <1>15 DEF Push, Busy, Agreed
  <2> QED BY <1>15, <2>1, Handed
<1>16. CASE ReadLine
  <2>1. Synced => Synced'
    BY <1>16, LineRead DEF ReadLine, Synced, host
  <2>2. UNCHANGED <<vault, cached, save>>
    BY <1>16 DEF ReadLine, host
  <2> QED BY <2>1, <2>2 DEF Agreed, Busy
<1>17. CASE Start
  BY <1>17, <1>d DEF Start, host, sidecar
<1>18. CASE PersistSession
  <2>1. Synced => Synced'
    <3>1. CASE store = live
      BY <1>18, <3>1, SyncedKept DEF PersistSession, host
    <3>2. CASE store # live
      <4>1. /\ up' = Append(up, live) /\ store' = live /\ UNCHANGED <<vault, down>>
            /\ up \in Seq(Sessions) /\ live \in Sessions
        BY <1>18, <3>2 DEF PersistSession, Upstream, TypeInv, host
      <4>2. /\ \A i \in DOMAIN up : i \in DOMAIN up' /\ up'[i] = up[i]
            /\ \E i \in DOMAIN up' : up'[i] = live
        BY <4>1, Appended
      <4> QED BY <4>1, <4>2 DEF Synced, Coming
    <3> QED BY <3>1, <3>2
  <2>2. UNCHANGED <<vault, cached, save>>
    BY <1>18 DEF PersistSession, host
  <2> QED BY <2>1, <2>2 DEF Agreed, Busy
<1>19. CASE Hear
  BY <1>19, <1>d DEF Hear, host, sidecar
<1>20. CASE Tick
  BY <1>20, <1>d DEF Tick, host, sidecar
<1>21. CASE Cycle
  BY <1>21, <1>d DEF Cycle, host, sidecar
<1>22. CASE UNCHANGED vars
  BY <1>22, <1>d DEF vars, host, sidecar
<1> QED BY Steps, <1>1, <1>2, <1>3, <1>4, <1>5, <1>6, <1>7, <1>8, <1>9, <1>10, <1>11,
            <1>12, <1>13, <1>14, <1>15, <1>16, <1>17, <1>18, <1>19, <1>20, <1>21, <1>22, <1>p

\* A step that leaves the dialog alone, or lets a login that writes go on.
LEMMA DialogKept ==
    ASSUME OneDialog, UNCHANGED <<begin, ctx, file>>,
           \A m \in Logins : /\ save[Signing(m)].at = "idle" <=> save'[Signing(m)].at = "idle"
                             /\ save'[Signing(m)].at = "bytes" => save[Signing(m)].at = "bytes"
    PROVE  OneDialog'
<1>1. NoRequest' <=> NoRequest
  BY DEF NoRequest
<1>2. NoSigning' <=> NoSigning
  BY DEF NoSigning
<1> QED BY <1>1, <1>2 DEF OneDialog

\* A writer that is not a login leaves the dialog alone.
LEMMA OthersKept ==
    ASSUME NEW w \in {LoggingOut, Harvesting, Rotating}, OneDialog, UNCHANGED <<begin, ctx, file>>,
           \A v \in Writers \ {w} : save'[v] = save[v]
    PROVE  OneDialog'
<1>1. \A m \in Logins : save'[Signing(m)] = save[Signing(m)]
  BY Apart
<1> QED BY <1>1, DialogKept

\* What the reader of the blob means to write is signed in.
LEMMA ReadSigned ==
    ASSUME SavesTyped, WritersSigned, NEW w \in Writers, NEW new, Read(w, new), Accept(new.session)
    PROVE  WritersSigned'
<1>1. \A v \in Writers \ {w} : save'[v] = save[v]
  BY Reads
<1>2. /\ save'[w].at # "read"
      /\ save'[w].at \in {"write", "share", "push"} => save'[w].blob = new
  BY Reads, Rests
<1> QED BY <1>1, <1>2 DEF WritersSigned, Busy, Accept

\* While logins do not cross, what is stored was signed in.
LEMMA SignedStep == TypeInv /\ SignInv /\ [Next]_vars => SignInv'
<1> SUFFICES ASSUME TypeInv, SignInv, [Next]_vars, ~crossed'
             PROVE  PlacesSigned' /\ WritersSigned' /\ OneDialog'
  BY DEF SignInv
<1> DEFINE Goal == PlacesSigned' /\ WritersSigned' /\ OneDialog'
<1>a. SavesTyped /\ vault \in Blobs /\ ctx \in Dialogs \cup {None} /\ file \in Maybe
  BY DEF TypeInv
<1>b. \A n \in Logins : Signing(n) \in Writers
  BY Apart
<1>c. LoggingOut \in Writers /\ Harvesting \in Writers /\ Rotating \in Writers
  BY Apart
<1>d. ~crossed
  BY Steps DEF LoginBegin, CodeRequested, RequestRefused, ReadFile, DropLogin, PersistLogin,
        SubmitCode, SubmitPassword, Harvest, Logout, Rotate, Write, WriteFails, Share, Push, PushFails,
        ReadLine, Start, PersistSession, Hear, Tick, Cycle, login, vars
<1>e. PlacesSigned /\ WritersSigned /\ OneDialog
  BY <1>d DEF SignInv
\* The dialog and the writers stay as they are.
<1>f. ASSUME UNCHANGED <<begin, ctx, file, save>> PROVE WritersSigned' /\ OneDialog'
  BY <1>e, <1>f, DialogKept DEF WritersSigned, Busy, Accept
<1>1. ASSUME NEW n \in Logins, LoginBegin(n) PROVE Goal
  <2>1. PlacesSigned' /\ WritersSigned'
    BY <1>1, <1>e DEF PlacesSigned, WritersSigned, Busy, Accept, LoginBegin, host, sidecar
  <2>2. ctx = None /\ NoRequest /\ NoSigning
    BY <1>1 DEF LoginBegin, NoRequest, NoSigning
  <2>3. OneDialog'
    BY <1>1, <2>2 DEF TypeInv, LoginBegin, OneDialog, NoRequest, NoSigning, host
  <2> QED BY <2>1, <2>3
<1>2. ASSUME NEW n \in Logins, CodeRequested(n) PROVE Goal
  <2>1. PlacesSigned' /\ WritersSigned'
    BY <1>2, <1>e DEF PlacesSigned, WritersSigned, Busy, Accept, CodeRequested, host, sidecar
  <2>2. /\ ctx = None /\ file = [login |-> n, rev |-> 0] /\ NoSigning
        /\ \A m \in Logins : begin[m] = "request" => m = n
    BY <1>2, <1>e DEF OneDialog, CodeRequested
  <2>3. /\ ctx' = [login |-> n, holds |-> "code"] /\ ctx'.holds = "code" /\ ctx'.login = n
        /\ file' = file /\ NoSigning' /\ NoRequest'
    BY <1>2, <2>2 DEF TypeInv, CodeRequested, ShutDown, NoSigning, NoRequest, host
  <2> QED BY <2>1, <2>2, <2>3 DEF OneDialog, NoRequest, NoSigning
<1>3. ASSUME NEW n \in Logins, RequestRefused(n) PROVE Goal
  <2>1. PlacesSigned' /\ WritersSigned'
    BY <1>3, <1>e DEF PlacesSigned, WritersSigned, Busy, Accept, RequestRefused, host, sidecar
  <2>2. /\ ctx = None /\ NoSigning
        /\ \A m \in Logins : begin[m] = "request" => m = n
    BY <1>3, <1>e DEF OneDialog, RequestRefused
  <2>3. ctx' = None /\ NoSigning' /\ NoRequest'
    BY <1>3, <2>2 DEF TypeInv, RequestRefused, NoSigning, NoRequest, host
  <2> QED BY <2>1, <2>3 DEF OneDialog, NoRequest, NoSigning
<1>4. ASSUME NEW n \in Logins, ReadFile(n) PROVE Goal
  <2>1. /\ ctx = [login |-> n, holds |-> "nothing"] /\ NoRequest
        /\ \A m \in Logins : save[Signing(m)].at # "idle" => m = n
        /\ file = [login |-> n, rev |-> 1]
    BY <1>4, <1>e DEF OneDialog, ReadFile
  <2>2. /\ SessionBytes = file \/ SessionBytes = None
        /\ SignedIn(file) /\ UNCHANGED <<begin, ctx, file>>
    BY <1>4, <2>1 DEF SessionBytes, SignedIn, ReadFile, login
  <2> DEFINE x == IF SessionBytes = None THEN Idle
                  ELSE [Idle EXCEPT !.at = "read", !.bytes = SessionBytes]
  <2>3. x.at \in {"idle", "read"} /\ (x.at = "read" => x.bytes = file)
    BY <2>2 DEF Idle
  <2>4. save' = [save EXCEPT ![Signing(n)] = x]
    BY <1>4 DEF ReadFile
  <2> HIDE DEF x
  <2>5. save'[Signing(n)] = x /\ \A v \in Writers \ {Signing(n)} : save'[v] = save[v]
    BY <1>a, <1>b, <2>4, Replaced
  <2>6. PlacesSigned' /\ WritersSigned'
    BY <1>4, <1>e, <2>2, <2>3, <2>5 DEF PlacesSigned, WritersSigned, Busy, Accept, ReadFile, sidecar
  <2>7. \A m \in Logins : /\ save'[Signing(m)].at # "idle" => m = n
                          /\ save'[Signing(m)].at # "bytes"
    BY <1>b, <2>1, <2>3, <2>5, Apart
  <2>8. NoRequest' /\ ctx'.holds = "nothing"
    BY <2>1, <2>2 DEF NoRequest
  <2>9. OneDialog'
    BY <2>1, <2>2, <2>7, <2>8 DEF OneDialog, NoRequest
  <2> QED BY <2>6, <2>9
<1>5. ASSUME NEW n \in Logins, DropLogin(n) PROVE Goal
  <2>1. /\ NoRequest /\ \A m \in Logins : save[Signing(m)].at # "idle" => m = n
    BY <1>5, <1>e DEF OneDialog, DropLogin
  <2>2. save'[Signing(n)] = Idle /\ \A v \in Writers \ {Signing(n)} : save'[v] = save[v]
    BY <1>5, <1>a, <1>b, Replaced DEF DropLogin
  <2>3. PlacesSigned' /\ WritersSigned'
    BY <1>5, <1>e, <2>2 DEF PlacesSigned, WritersSigned, Busy, Accept, DropLogin, Idle, sidecar
  <2>4. ctx' = None /\ NoRequest' /\ \A m \in Logins : save'[Signing(m)].at = "idle"
    BY <1>5, <1>b, <2>1, <2>2 DEF DropLogin, NoRequest, Idle
  <2> QED BY <2>3, <2>4 DEF OneDialog, NoRequest
<1>6. ASSUME NEW n \in Logins, PersistLogin(n) PROVE Goal
  <2>1. /\ PlacesSigned' /\ UNCHANGED <<begin, ctx, file>>
    BY <1>6, <1>e DEF PlacesSigned, Accept, PersistLogin, sidecar, login
  <2>2. Accept(save[Signing(n)].bytes)
    BY <1>6, <1>b, <1>e DEF PersistLogin, WritersSigned
  <2>3. [vault EXCEPT !.session = save[Signing(n)].bytes].session = save[Signing(n)].bytes
    BY <1>a DEF Blobs
  <2>4. WritersSigned'
    BY <1>6, <1>a, <1>b, <1>e, <2>2, <2>3, ReadSigned DEF PersistLogin
  <2>5. /\ save[Signing(n)].at = "read" /\ save'[Signing(n)].at \in {"drop", "write"}
        /\ \A v \in Writers \ {Signing(n)} : save'[v] = save[v]
    BY <1>6, <1>a, <1>b, Reads, Rests DEF PersistLogin
  <2>6. OneDialog'
    BY <1>b, <1>e, <2>1, <2>5, Apart, DialogKept
  <2> QED BY <2>1, <2>4, <2>6
<1>7. CASE SubmitCode
  <2>1. /\ ctx \in Dialogs /\ ctx.login \in Logins /\ Signing(ctx.login) \in Writers
        /\ file = [login |-> ctx.login, rev |-> 0] /\ NoRequest /\ NoSigning
    BY <1>7, <1>a, <1>b, <1>e DEF SubmitCode, OneDialog, Dialogs
  <2>2. PlacesSigned' /\ begin' = begin
    BY <1>7, <1>e DEF PlacesSigned, Accept, SubmitCode, sidecar
  <2>3. CASE Accepted
    <3>1. /\ save'[Signing(ctx.login)].at = "bytes"
          /\ \A v \in Writers \ {Signing(ctx.login)} : save'[v] = save[v]
      BY <1>a, <2>1, <2>3, Moves DEF Accepted
    <3>2. file' = [login |-> ctx.login, rev |-> 1] /\ ctx' = [login |-> ctx.login, holds |-> "nothing"]
      BY <2>1, <2>3 DEF Accepted, Dialogs
    <3>3. WritersSigned'
      BY <1>e, <3>1 DEF WritersSigned, Busy, Accept
    <3>4. \A m \in Logins : save'[Signing(m)].at # "idle" => m = ctx.login
      BY <2>1, <3>1, Apart DEF NoSigning
    <3>5. NoRequest' /\ ctx'.holds = "nothing"
      BY <2>1, <2>2, <3>2 DEF NoRequest
    <3>6. OneDialog'
      BY <2>1, <3>2, <3>4, <3>5 DEF OneDialog, NoRequest
    <3> QED BY <2>2, <3>3, <3>6
  <2>4. CASE ~Accepted
    <3>1. /\ save' = save /\ file' = file /\ ctx'.login = ctx.login
          /\ NoRequest' /\ NoSigning'
      BY <1>7, <2>1, <2>4 DEF SubmitCode, Dialogs, NoRequest, NoSigning
    <3>2. WritersSigned'
      BY <1>e, <3>1 DEF WritersSigned, Busy, Accept
    <3> QED BY <2>1, <2>2, <3>1, <3>2 DEF OneDialog, NoRequest, NoSigning
  <2> QED BY <2>3, <2>4
<1>8. CASE SubmitPassword
  <2>1. /\ ctx \in Dialogs /\ ctx.login \in Logins /\ Signing(ctx.login) \in Writers
        /\ file = [login |-> ctx.login, rev |-> 0] /\ NoRequest /\ NoSigning
    BY <1>8, <1>a, <1>b, <1>e DEF SubmitPassword, OneDialog, Dialogs
  <2>2. PlacesSigned' /\ begin' = begin
    BY <1>8, <1>e DEF PlacesSigned, Accept, SubmitPassword, sidecar
  <2>3. CASE Accepted
    <3>1. /\ save'[Signing(ctx.login)].at = "bytes"
          /\ \A v \in Writers \ {Signing(ctx.login)} : save'[v] = save[v]
      BY <1>a, <2>1, <2>3, Moves DEF Accepted
    <3>2. file' = [login |-> ctx.login, rev |-> 1] /\ ctx' = [login |-> ctx.login, holds |-> "nothing"]
      BY <2>1, <2>3 DEF Accepted, Dialogs
    <3>3. WritersSigned'
      BY <1>e, <3>1 DEF WritersSigned, Busy, Accept
    <3>4. \A m \in Logins : save'[Signing(m)].at # "idle" => m = ctx.login
      BY <2>1, <3>1, Apart DEF NoSigning
    <3>5. NoRequest' /\ ctx'.holds = "nothing"
      BY <2>1, <2>2, <3>2 DEF NoRequest
    <3>6. OneDialog'
      BY <2>1, <3>2, <3>4, <3>5 DEF OneDialog, NoRequest
    <3> QED BY <2>2, <3>3, <3>6
  <2>4. CASE ~Accepted
    <3>1. /\ save' = save /\ file' = file /\ ctx'.login = ctx.login
          /\ NoRequest' /\ NoSigning'
      BY <1>8, <2>1, <2>4 DEF SubmitPassword, Dialogs, NoRequest, NoSigning
    <3>2. WritersSigned'
      BY <1>e, <3>1 DEF WritersSigned, Busy, Accept
    <3> QED BY <2>1, <2>2, <3>1, <3>2 DEF OneDialog, NoRequest, NoSigning
  <2> QED BY <2>3, <2>4
<1>9. CASE Harvest
  <2>1. PlacesSigned' /\ UNCHANGED <<begin, ctx, file>>
    BY <1>9, <1>e, Lines DEF PlacesSigned, Accept, Harvest, sidecar, login
  <2>2. Accept([vault EXCEPT !.session = Head(up)].session)
    BY <1>9, <1>a, <1>e, Lines DEF Harvest, Blobs, PlacesSigned, Accept
  <2>3. WritersSigned'
    BY <1>9, <1>a, <1>c, <1>e, <2>2, ReadSigned DEF Harvest
  <2>4. \A v \in Writers \ {Harvesting} : save'[v] = save[v]
    BY <1>9, <1>a, <1>c, Reads DEF Harvest
  <2>5. OneDialog'
    BY <1>e, <2>1, <2>4, OthersKept
  <2> QED BY <2>1, <2>3, <2>5
<1>10. CASE Logout
  <2>1. PlacesSigned' /\ UNCHANGED <<begin, ctx, file>>
    BY <1>10, <1>e, Lines DEF PlacesSigned, Accept, Logout, sidecar, login
  <2>2. Accept([vault EXCEPT !.session = None].session)
    BY <1>10, <1>a, <1>e, Lines DEF Logout, Blobs, PlacesSigned, Accept
  <2>3. WritersSigned'
    BY <1>10, <1>a, <1>c, <1>e, <2>2, ReadSigned DEF Logout
  <2>4. \A v \in Writers \ {LoggingOut} : save'[v] = save[v]
    BY <1>10, <1>a, <1>c, Reads DEF Logout
  <2>5. OneDialog'
    BY <1>e, <2>1, <2>4, OthersKept
  <2> QED BY <2>1, <2>3, <2>5
<1>11. CASE Rotate
  <2>1. PlacesSigned' /\ UNCHANGED <<begin, ctx, file>>
    BY <1>11, <1>e, Lines DEF PlacesSigned, Accept, Rotate, sidecar, login
  <2>2. Accept([vault EXCEPT !.token = @ + 1].session)
    BY <1>11, <1>a, <1>e, Lines DEF Rotate, Blobs, PlacesSigned, Accept
  <2>3. WritersSigned'
    BY <1>11, <1>a, <1>c, <1>e, <2>2, ReadSigned DEF Rotate
  <2>4. \A v \in Writers \ {Rotating} : save'[v] = save[v]
    BY <1>11, <1>a, <1>c, Reads DEF Rotate
  <2>5. OneDialog'
    BY <1>e, <2>1, <2>4, OthersKept
  <2> QED BY <2>1, <2>3, <2>5
<1>12. ASSUME NEW w \in Writers, Write(w) PROVE Goal
  <2>1. save[w].at # "idle" /\ Accept(save[w].blob.session)
    BY <1>12, <1>e DEF Write, WritersSigned, Busy
  <2>2. /\ save'[w].at = "share" /\ save'[w].blob = save[w].blob
        /\ \A v \in Writers \ {w} : save'[v] = save[v]
    BY <1>12, <1>a, Moves DEF Write
  <2>3. PlacesSigned' /\ UNCHANGED <<begin, ctx, file>>
    BY <1>12, <1>e, <2>1 DEF PlacesSigned, Accept, Write, sidecar, login
  <2>4. WritersSigned'
    BY <1>e, <2>1, <2>2 DEF WritersSigned, Busy, Accept
  <2>5. OneDialog'
    BY <1>b, <1>e, <2>1, <2>2, <2>3, Apart, DialogKept
  <2> QED BY <2>3, <2>4, <2>5
<1>13. ASSUME NEW w \in Writers, WriteFails(w) PROVE Goal
  <2>1. save'[w] = Idle /\ \A v \in Writers \ {w} : save'[v] = save[v]
    BY <1>13, <1>a, Replaced DEF WriteFails
  <2>2. PlacesSigned' /\ UNCHANGED <<begin, ctx, file>>
    BY <1>13, <1>e DEF PlacesSigned, Accept, WriteFails, sidecar, login
  <2>3. WritersSigned'
    BY <1>e, <2>1 DEF WritersSigned, Busy, Accept, Idle
  <2>4. CASE w \in {LoggingOut, Harvesting, Rotating}
    BY <1>e, <2>1, <2>2, <2>3, <2>4, OthersKept
  <2>5. ASSUME NEW n \in Logins, w = Signing(n) PROVE OneDialog'
    <3>1. /\ ctx = [login |-> n, holds |-> "nothing"] /\ NoRequest
          /\ \A m \in Logins : save[Signing(m)].at # "idle" => m = n
      BY <1>13, <1>e, <2>5 DEF OneDialog, WriteFails
    <3>2. \A m \in Logins : save'[Signing(m)].at = "idle"
      BY <1>b, <2>1, <2>5, <3>1, Apart DEF Idle
    <3>3. NoRequest' /\ ctx' = ctx /\ ctx.holds = "nothing"
      BY <2>2, <3>1 DEF NoRequest
    <3> QED BY <3>2, <3>3 DEF OneDialog, NoRequest
  <2> QED BY <2>2, <2>3, <2>4, <2>5, Apart
<1>14. ASSUME NEW w \in Writers, Share(w) PROVE Goal
  <2>1. save[w].at # "idle" /\ Accept(save[w].blob.session)
    BY <1>14, <1>e DEF Share, WritersSigned, Busy
  <2>2. PlacesSigned' /\ UNCHANGED <<begin, ctx, file>>
    BY <1>14, <1>e, <2>1 DEF PlacesSigned, Accept, Share, sidecar, login
  <2>3. CASE w = Rotating
    <3>1. save'[w] = Idle /\ \A v \in Writers \ {w} : save'[v] = save[v]
      BY <1>14, <1>a, <2>3, Replaced DEF Share
    <3>2. WritersSigned'
      BY <1>e, <3>1 DEF WritersSigned, Busy, Accept, Idle
    <3> QED BY <1>e, <2>2, <2>3, <3>1, <3>2, OthersKept
  <2>4. CASE w # Rotating
    <3>1. save' = [save EXCEPT ![w].at = "push"]
      BY <1>14, <1>a, <2>4 DEF Share, SavesTyped
    <3>2. /\ save'[w].at = "push" /\ save'[w].blob = save[w].blob
          /\ \A v \in Writers \ {w} : save'[v] = save[v]
      BY <1>a, <3>1, Moves
    <3>3. WritersSigned'
      BY <1>e, <2>1, <3>2 DEF WritersSigned, Busy, Accept
    <3>4. OneDialog'
      BY <1>b, <1>e, <2>1, <2>2, <3>2, Apart, DialogKept
    <3> QED BY <2>2, <3>3, <3>4
  <2> QED BY <2>3, <2>4
<1>15. ASSUME NEW w \in Writers, Push(w) PROVE Goal
  <2>1. save[w].at # "idle" /\ Accept(save[w].blob.session)
    BY <1>15, <1>e DEF Push, WritersSigned, Busy
  <2>2. /\ save'[w] = Rest(w) /\ save'[w].at \in {"idle", "drop"}
        /\ \A v \in Writers \ {w} : save'[v] = save[v]
    BY <1>15, <1>a, Replaced, Rests DEF Push
  <2>3. UNCHANGED <<begin, ctx, file>> /\ PlacesSigned'
    <3>1. save[w].blob \in Blobs /\ down \in Seq(Maybe) /\ down' = Append(down, save[w].blob.session)
      BY <1>15, <1>a DEF Push, SavesTyped, Busy, TypeInv
    <3>2. \A i \in DOMAIN down' : Accept(down'[i])
      BY <1>e, <2>1, <3>1, Appended DEF PlacesSigned, Blobs
    <3> QED BY <1>15, <1>e, <3>2 DEF PlacesSigned, Accept, Push, sidecar, login
  <2>4. WritersSigned'
    BY <1>e, <2>2 DEF WritersSigned, Busy, Accept
  <2>5. CASE w \in {LoggingOut, Harvesting, Rotating}
    BY <1>e, <2>2, <2>3, <2>4, <2>5, OthersKept
  <2>6. ASSUME NEW n \in Logins, w = Signing(n) PROVE OneDialog'
    <3>1. save'[Signing(n)].at = "drop"
      BY <2>2, <2>6, Rests
    <3> QED BY <1>b, <1>e, <2>1, <2>2, <2>3, <2>6, <3>1, Apart, DialogKept
  <2> QED BY <2>3, <2>4, <2>5, <2>6, Apart
<1>p. ASSUME NEW w \in Writers, PushFails(w) PROVE Goal
  <2>1. save[w].at # "idle" /\ Accept(save[w].blob.session)
    BY <1>p, <1>e DEF PushFails, WritersSigned, Busy
  <2>2. /\ save'[w] = Rest(w) /\ save'[w].at \in {"idle", "drop"}
        /\ \A v \in Writers \ {w} : save'[v] = save[v]
    BY <1>p, <1>a, Replaced, Rests DEF PushFails
  <2>3. UNCHANGED <<begin, ctx, file>> /\ PlacesSigned'
    BY <1>p, <1>e DEF PlacesSigned, Accept, PushFails, sidecar, login
  <2>4. WritersSigned'
    BY <1>e, <2>2 DEF WritersSigned, Busy, Accept
  <2>5. CASE w \in {LoggingOut, Harvesting, Rotating}
    BY <1>e, <2>2, <2>3, <2>4, <2>5, OthersKept
  <2>6. ASSUME NEW n \in Logins, w = Signing(n) PROVE OneDialog'
    <3>1. save'[Signing(n)].at = "drop"
      BY <2>2, <2>6, Rests
    <3> QED BY <1>b, <1>e, <2>1, <2>2, <2>3, <2>6, <3>1, Apart, DialogKept
  <2> QED BY <2>3, <2>4, <2>5, <2>6, Apart
<1>16. CASE ReadLine
  <2>1. UNCHANGED <<begin, ctx, file, save>>
    BY <1>16 DEF ReadLine, login, host
  <2>2. PlacesSigned'
    BY <1>16, <1>e, Lines DEF PlacesSigned, Accept, ReadLine, host
  <2> QED BY <1>f, <2>1, <2>2
<1>17. CASE Start
  <2>1. UNCHANGED <<begin, ctx, file, save>>
    BY <1>17 DEF Start, login, host
  <2>2. PlacesSigned'
    BY <1>17, <1>e DEF PlacesSigned, Accept, Start, host
  <2> QED BY <1>f, <2>1, <2>2
<1>18. CASE PersistSession
  <2>1. UNCHANGED <<begin, ctx, file, save>>
    BY <1>18 DEF PersistSession, login, host
  <2>2. PlacesSigned'
    <3>1. CASE store = live
      BY <1>18, <1>e, <3>1 DEF PlacesSigned, Accept, PersistSession, host
    <3>2. CASE store # live
      <4>1. /\ up' = Append(up, live) /\ store' = live /\ UNCHANGED <<vault, cached, down, live>>
            /\ up \in Seq(Sessions) /\ live \in Sessions
        BY <1>18, <3>2 DEF PersistSession, Upstream, TypeInv, host
      <4>2. \A i \in DOMAIN up' : up'[i] = live \/ (i \in DOMAIN up /\ up'[i] = up[i])
        BY <4>1, Appended
      <4> QED BY <1>e, <4>1, <4>2 DEF PlacesSigned, Accept
    <3> QED BY <3>1, <3>2
  <2> QED BY <1>f, <2>1, <2>2
<1>19. CASE Hear
  <2>1. UNCHANGED <<begin, ctx, file, save>>
    BY <1>19 DEF Hear, login, host
  <2>2. PlacesSigned'
    BY <1>19, <1>e DEF PlacesSigned, Accept, Hear, host
  <2> QED BY <1>f, <2>1, <2>2
<1>20. CASE Tick
  <2>1. UNCHANGED <<begin, ctx, file, save>>
    BY <1>20 DEF Tick, login, host
  <2>2. PlacesSigned'
    BY <1>20, <1>e DEF PlacesSigned, Accept, Tick, host
  <2> QED BY <1>f, <2>1, <2>2
<1>21. CASE Cycle
  <2>1. UNCHANGED <<begin, ctx, file, save>>
    BY <1>21 DEF Cycle, login, host
  <2>2. PlacesSigned'
    <3>1. live' = live \/ (live' # None => SignedIn(live'))
      BY <1>21, SessionTypes DEF Cycle, TypeInv, Sessions, SignedIn
    <3> QED BY <1>21, <1>e, <3>1 DEF PlacesSigned, Accept, Cycle, host
  <2> QED BY <1>f, <2>1, <2>2
<1>22. CASE UNCHANGED vars
  BY <1>22, <1>e, <1>f DEF PlacesSigned, Accept, vars, host, login, sidecar
<1> QED BY Steps, <1>1, <1>2, <1>3, <1>4, <1>5, <1>6, <1>7, <1>8, <1>9, <1>10, <1>11,
            <1>12, <1>13, <1>14, <1>15, <1>16, <1>17, <1>18, <1>19, <1>20, <1>21, <1>22, <1>p

\* Only a line that is sent ends the mending.
LEMMA MendingEnds ==
    ASSUME [Next]_vars, mixed' = "no", mixed # "no"
    PROVE  \E w \in Writers : Push(w) /\ mixed = "mending"
<1>1. ASSUME NEW w \in Writers, NEW new, Read(w, new) PROVE FALSE
  BY <1>1 DEF Read
<1>2. ASSUME NEW w \in Writers, Push(w) PROVE mixed = "mending"
  BY <1>2 DEF Push
<1>3. ASSUME NEW w \in Writers, Write(w) \/ WriteFails(w) \/ Share(w) \/ PushFails(w) PROVE FALSE
  BY <1>3 DEF Write, WriteFails, Share, PushFails
<1>4. ASSUME NEW n \in Logins, LoginBegin(n) \/ CodeRequested(n) \/ RequestRefused(n)
                              \/ ReadFile(n) \/ DropLogin(n)
      PROVE  FALSE
  BY <1>4 DEF LoginBegin, CodeRequested, RequestRefused, ReadFile, DropLogin
<1>5. ASSUME NEW n \in Logins, PersistLogin(n) PROVE FALSE
  BY <1>1, <1>5, Apart DEF PersistLogin
<1>6. CASE Harvest \/ Logout \/ Rotate
  BY <1>1, <1>6, Apart DEF Harvest, Logout, Rotate
<1>7. CASE SubmitCode \/ SubmitPassword
  BY <1>7 DEF SubmitCode, SubmitPassword
<1>8. CASE ReadLine \/ Start \/ PersistSession \/ Hear \/ Tick \/ Cycle \/ UNCHANGED vars
  BY <1>8 DEF ReadLine, Start, PersistSession, Hear, Tick, Cycle, vars
<1> QED BY Steps, <1>2, <1>3, <1>4, <1>5, <1>6, <1>7, <1>8

\* The one writer goes on, and nothing else touches what it writes.
LEMMA MendedStep ==
    ASSUME TypeInv, FreshLogins, Mended, [Next]_vars, mixed = "mending", mixed' = "mending"
    PROVE  Mended'
<1>a. SavesTyped
  BY DEF TypeInv
<1>b. PICK w \in Writers \ {Rotating} :
          /\ Busy(w) /\ \A v \in Writers \ {w} : ~Busy(v)
          /\ save[w].at \in {"share", "push"} => save[w].blob = vault
          /\ save[w].at = "push" => cached = vault
  BY DEF Mended
\* A step of another, who holds no blob before or after it.
<1>c. ASSUME UNCHANGED <<vault, cached>>,
             \A v \in Writers : save'[v] = save[v] \/ (~Busy(v) /\ ~Busy(v)')
      PROVE  Mended'
  <2>1. save'[w] = save[w] /\ \A v \in Writers \ {w} : ~Busy(v)'
    BY <1>b, <1>c DEF Busy
  <2> QED BY <1>b, <1>c, <2>1 DEF Mended, Busy
<1>1. ASSUME NEW v \in Writers, NEW new, Read(v, new) PROVE FALSE
  BY <1>1, <1>b DEF Read, Untouched
<1>2. ASSUME NEW n \in Logins, ReadFile(n) PROVE Mended'
  <2> DEFINE x == IF SessionBytes = None THEN Idle
                  ELSE [Idle EXCEPT !.at = "read", !.bytes = SessionBytes]
  <2>1. x.at \in {"idle", "read"}
    BY DEF Idle
  <2>2. save' = [save EXCEPT ![Signing(n)] = x] /\ Signing(n) \in Writers
    BY <1>2, Apart DEF ReadFile
  <2> HIDE DEF x
  <2>3. /\ save'[Signing(n)].at \in {"idle", "read"}
        /\ \A v \in Writers \ {Signing(n)} : save'[v] = save[v]
    BY <1>a, <2>1, <2>2, Replaced
  <2> QED BY <1>2, <1>c, <2>3 DEF Busy, ReadFile
<1>3. ASSUME NEW n \in Logins, DropLogin(n) PROVE Mended'
  <2>1. save'[Signing(n)] = Idle /\ \A v \in Writers \ {Signing(n)} : save'[v] = save[v]
    BY <1>3, <1>a, Apart, Replaced DEF DropLogin
  <2> QED BY <1>3, <1>c, <2>1 DEF Busy, DropLogin, Idle
<1>4. CASE SubmitCode \/ SubmitPassword
  <2>1. CASE Accepted
    <3>1. ctx # None /\ ctx.holds # "nothing" /\ ctx.login \in Logins
      BY <1>4 DEF SubmitCode, SubmitPassword, TypeInv, Dialogs
    <3>2. save[Signing(ctx.login)].at = "idle" /\ Signing(ctx.login) \in Writers
      BY <3>1, Apart DEF FreshLogins
    <3>3. /\ save'[Signing(ctx.login)].at = "bytes"
          /\ \A v \in Writers \ {Signing(ctx.login)} : save'[v] = save[v]
      BY <1>a, <2>1, <3>2, Moves DEF Accepted
    <3> QED BY <1>4, <1>c, <3>2, <3>3 DEF Busy, SubmitCode, SubmitPassword
  <2>2. CASE ~Accepted
    BY <1>4, <1>c, <2>2 DEF SubmitCode, SubmitPassword
  <2> QED BY <2>1, <2>2
<1>5. ASSUME NEW v \in Writers, Write(v) PROVE Mended'
  <2>1. /\ save'[v].at = "share" /\ save'[v].blob = save[v].blob
        /\ \A u \in Writers \ {v} : save'[u] = save[u]
    BY <1>5, <1>a, Moves DEF Write
  <2>2. v = w /\ vault' = save[v].blob
    BY <1>5, <1>b DEF Write, Busy
  <2> QED BY <1>b, <2>1, <2>2 DEF Mended, Busy
<1>6. ASSUME NEW v \in Writers, Share(v) PROVE Mended'
  <2>1. v = w /\ cached' = save[v].blob /\ vault' = vault /\ save[v].blob = vault
        /\ save' = [save EXCEPT ![v].at = "push"]
    BY <1>6, <1>a, <1>b DEF Share, Busy, SavesTyped
  <2>2. /\ save'[v].at = "push" /\ save'[v].blob = save[v].blob
        /\ \A u \in Writers \ {v} : save'[u] = save[u]
    BY <1>a, <2>1, Moves
  <2> QED BY <1>b, <2>1, <2>2 DEF Mended, Busy
<1>7. ASSUME NEW v \in Writers, WriteFails(v) \/ Push(v) \/ PushFails(v) PROVE FALSE
  BY <1>7 DEF WriteFails, Push, PushFails
<1>8. ASSUME NEW n \in Logins, LoginBegin(n) \/ CodeRequested(n) \/ RequestRefused(n) PROVE Mended'
  BY <1>8, <1>c DEF LoginBegin, CodeRequested, RequestRefused, host
<1>9. ASSUME NEW n \in Logins, PersistLogin(n) PROVE FALSE
  BY <1>1, <1>9, Apart DEF PersistLogin
<1>10. CASE Harvest \/ Logout \/ Rotate
  BY <1>1, <1>10, Apart DEF Harvest, Logout, Rotate
<1>11. CASE ReadLine \/ Start \/ PersistSession \/ Hear \/ Tick \/ Cycle \/ UNCHANGED vars
  BY <1>11, <1>c DEF ReadLine, Start, PersistSession, Hear, Tick, Cycle, vars, host
<1> QED BY Steps, <1>2, <1>3, <1>4, <1>5, <1>6, <1>7, <1>8, <1>9, <1>10, <1>11

\* A lone reader of a blob it will change begins to put its own everywhere.
LEMMA MendingBegins ==
    ASSUME TypeInv, [Next]_vars, mixed' = "mending", mixed # "mending"
    PROVE  Mended'
<1>1. ASSUME NEW w \in Writers, NEW new, Read(w, new) PROVE Mended'
  <2>1. \A v \in Writers : ~Busy(v)
    BY <1>1 DEF Read, Untouched
  <2>2. w # Rotating /\ new # vault
    BY <1>1 DEF Read
  <2>3. save'[w].at = "write" /\ \A v \in Writers \ {w} : save'[v] = save[v]
    BY <1>1, <2>2, Reads DEF TypeInv
  <2> QED BY <2>1, <2>2, <2>3 DEF Mended, Busy
<1>2. ASSUME mixed' = mixed PROVE FALSE
  BY <1>2
<1>3. ASSUME NEW w \in Writers, Write(w) \/ WriteFails(w) \/ Share(w) \/ Push(w) \/ PushFails(w)
      PROVE  FALSE
  BY <1>3 DEF Write, WriteFails, Share, Push, PushFails
<1>4. ASSUME NEW n \in Logins, LoginBegin(n) \/ CodeRequested(n) \/ RequestRefused(n)
                              \/ ReadFile(n) \/ DropLogin(n)
      PROVE  FALSE
  BY <1>4 DEF LoginBegin, CodeRequested, RequestRefused, ReadFile, DropLogin
<1>5. ASSUME NEW n \in Logins, PersistLogin(n) PROVE Mended'
  BY <1>1, <1>5, Apart DEF PersistLogin
<1>6. CASE Harvest \/ Logout \/ Rotate
  BY <1>1, <1>6, Apart DEF Harvest, Logout, Rotate
<1>7. CASE SubmitCode \/ SubmitPassword
  BY <1>7 DEF SubmitCode, SubmitPassword
<1>8. CASE ReadLine \/ Start \/ PersistSession \/ Hear \/ Tick \/ Cycle \/ UNCHANGED vars
  BY <1>8 DEF ReadLine, Start, PersistSession, Hear, Tick, Cycle, vars
<1> QED BY Steps, <1>1, <1>3, <1>4, <1>5, <1>6, <1>7, <1>8

\* The three come to agree, and a line sent by a lone writer ends whatever had
\* put them apart.
LEMMA AgreeStep == TypeInv /\ FreshLogins /\ AgreeInv /\ [Next]_vars => AgreeInv'
<1> SUFFICES ASSUME TypeInv, FreshLogins, AgreeInv, [Next]_vars PROVE AgreeInv'
  OBVIOUS
<1>1. ASSUME mixed' = "no", mixed = "no" PROVE Agreed'
  BY <1>1, AgreedStep DEF AgreeInv
<1>2. ASSUME mixed' = "no", mixed # "no" PROVE Agreed'
  <2>1. PICK w \in Writers : Push(w) /\ mixed = "mending"
    BY <1>2, MendingEnds
  <2>2. Busy(w) /\ Mended /\ save[w].at = "push"
    BY <2>1 DEF AgreeInv, Push, Busy
  <2>3. /\ save[w].blob = vault /\ cached = vault
        /\ \A v \in Writers \ {w} : ~Busy(v)
    BY <2>2 DEF Mended
  <2> QED BY <2>1, <2>3, Handed
<1>3. ASSUME mixed' = "mending" PROVE Mended'
  BY <1>3, MendedStep, MendingBegins DEF AgreeInv
<1> QED BY <1>1, <1>2, <1>3 DEF AgreeInv

------------------------------------------------------------------------------
\* Every step keeps all the parts.
LEMMA TelegramStep == TelegramInv /\ [Next]_vars => TelegramInv'
BY TypeStep, SignedStep, FreshStep, AgreeStep, FinalStep DEF TelegramInv

LEMMA TelegramAlways == Spec => []TelegramInv
BY TelegramInit, TelegramStep, PTL DEF Spec

\* The state always has its types: above all, whoever writes the vault has a
\* blob to write, and a loop that runs has a session to run on.
THEOREM SessionsTyped == Spec => []TypeInv
<1>1. TelegramInv => TypeInv
  BY DEF TelegramInv
<1> QED BY <1>1, TelegramAlways, PTL

\* For any number of logins, one after the other: a session whose code Telegram
\* has not accepted is nowhere to be found, in the vault, in the sidecar, or
\* between the two.
THEOREM OnlyAccepted == Spec => []OnlySignedIn
<1>1. TelegramInv => OnlySignedIn
  BY DEF TelegramInv, SignInv, PlacesSigned, Accept, OnlySignedIn
<1> QED BY <1>1, TelegramAlways, PTL

\* For any number of logins, renewals, rotations and logouts, of failed writes
\* and of failed lines: once a writer has had the vault to itself and told the
\* sidecar, and until writers overlap or something fails again, vault, host and
\* sidecar agree when the lines are read and no writer is at work.
THEOREM ComesToAgree == Spec => []AgreeWhenQuiet
<1>1. TelegramInv => AgreeWhenQuiet
  <2> SUFFICES ASSUME TelegramInv, Quiet, mixed = "no"
               PROVE  cached = vault /\ store = vault.session
    BY DEF AgreeWhenQuiet
  <2>1. \A w \in Writers : ~Busy(w)
    BY DEF Quiet, Busy
  <2>2. cached = vault /\ Synced
    BY <2>1 DEF TelegramInv, AgreeInv, Agreed
  <2>3. up = <<>> /\ down = <<>>
    BY DEF Quiet
  <2> QED BY <2>2, <2>3 DEF Synced, Coming
<1> QED BY <1>1, TelegramAlways, PTL

\* For any number of writers that come later: after a logout that met nothing in
\* its way no blob, line or cycle brings a session back before the next login.
THEOREM LogoutStays == Spec => []LogoutIsFinal
<1>1. TelegramInv => LogoutIsFinal
  BY DEF TelegramInv, FinalInv, LogoutIsFinal
<1> QED BY <1>1, TelegramAlways, PTL

===============================================================================
