------------------------------- MODULE Setters -------------------------------
(***************************************************************************)
(* The platform backends (whirl-worker/backend): one image is put on every *)
(* place a desktop shows one, by one call or command per place, while the  *)
(* user plugs screens in and out and other programs set images; and it is  *)
(* read back.                                                              *)
(*                                                                         *)
(* A place is a screen, a GNOME key, or the one background of a desktop    *)
(* that has no more. Messages, HRESULTs and NSErrors are left out; what a  *)
(* call does is external and may be nothing, everything, or a refusal that *)
(* comes after the image was already changed.                              *)
(***************************************************************************)
EXTENDS Naturals, SequencesExt, FiniteSetsExt

CONSTANTS Machines,    \* the machines: platform, signals of the session, tools on the PATH
                       \* ("shell" for the calls into macOS and Windows)
          Screens,     \* the screens of macOS and Windows
          Asked,       \* what a set is asked for
          OtherImage,  \* what other programs and the user show
          MaxHappenings

ASSUME SettersAssumption ==
  /\ IsFiniteSet(Screens)
  /\ "" \notin Asked /\ OtherImage \notin Asked /\ MaxHappenings \in Nat
ASSUME MachinesAssumption ==
  \A m \in Machines : /\ m.platform \in {"linux", "macos", "windows", "noop"}
                      /\ m.platform = "linux" => m.signals.names \in Seq(STRING)

VARIABLES machine,     \* the machine this is about
          shows,       \* the image of each place that is there, "" for none
          setter,      \* the set in progress: its step, the path, the targets left
          steady,      \* observer: the places nobody else has changed since it began
          readback,    \* the readback in progress, or its answer
          calm,        \* observer: it began, and went on, with every place as the set left it
          happenings

setterVars == <<machine, shows, setter, steady, readback, calm, happenings>>

NoMachine == [platform |-> "none"]
NullMonitor == "every monitor"

-----------------------------------------------------------------------------
(* Which desktop this is, and what a set calls on it. *)

\* named_desktop: the first component of the list that names one.
Named(names) ==
  LET known == {i \in DOMAIN names : names[i] \in {"gnome", "kde", "hyprland"}}
  IN  IF known = {} THEN "none" ELSE names[Min(known)]

\* detect: a compositor's own socket before XDG_CURRENT_DESKTOP; the X11 tools only in an
\* X session that names no desktop at all.
Detect(s) ==
  CASE s.hyprland -> "hyprland"
    [] ~s.hyprland /\ s.sway -> "sway"
    [] ~s.hyprland /\ ~s.sway /\ Named(s.names) # "none" -> Named(s.names)
    [] ~s.hyprland /\ ~s.sway /\ Named(s.names) = "none" ->
         IF s.session = "x11" /\ s.names = <<>> THEN "x11" ELSE "none"

\* Desktop::calls: steps of one set, but for x11, where each is an alternative.
Call(tool, place) == [tool |-> tool, place |-> place]
Calls(desktop) ==
  CASE desktop = "gnome" -> <<Call("gsettings", "picture-uri"), Call("gsettings", "picture-uri-dark")>>
    [] desktop = "kde"   -> <<Call("plasma-apply-wallpaperimage", "background")>>
    [] desktop = "sway"  -> <<Call("swaymsg", "background")>>
    [] desktop = "x11"   -> [i \in 1 .. 3 |-> Call(<<"feh", "xwallpaper", "hsetroot">>[i], "background")]
    [] OTHER             -> <<>>     \* hyprland is refused by name

Desktop == IF machine.platform = "linux" THEN Detect(machine.signals) ELSE machine.platform
Dynamic == machine.platform \in {"macos", "windows"}
PlacesOf(m) == IF m.platform \in {"macos", "windows"} THEN Screens
               ELSE IF m.platform = "noop" THEN {"background"}
               ELSE {c.place : c \in Range(Calls(Detect(m.signals)))}
Attached == DOMAIN shows

SettersInit ==
  /\ machine = NoMachine /\ shows = << >> /\ steady = {} /\ happenings = 0
  /\ setter = [step |-> "idle", result |-> "none"] /\ readback = [step |-> "idle"]
  /\ calm = FALSE

SessionBegins(m) ==
  /\ machine = NoMachine /\ machine' = m
  /\ \E there \in SUBSET PlacesOf(m) :
       /\ m.platform \notin {"macos", "windows"} => there = PlacesOf(m)
       /\ shows' = [p \in there |-> ""]
  /\ UNCHANGED <<setter, steady, readback, calm, happenings>>

-----------------------------------------------------------------------------
(* set *)

Refuse == setter' = [step |-> "done", result |-> "refused"]

\* The path is checked and the targets are listed once, each screen under its own name.
BeginSet(path) ==
  /\ machine # NoMachine /\ setter.step = "idle" /\ readback.step = "idle"
  /\ steady' = Attached
  /\ LET begins(targets) == setter' = [step |-> "calls", path |-> path, left |-> targets, result |-> "none"]
     IN  CASE machine.platform = "noop" -> setter' = [step |-> "done", result |-> "ok", path |-> path]
           [] machine.platform # "noop" /\ path = "relative" /\ machine.platform # "windows" -> Refuse
           [] machine.platform = "linux" /\ path # "relative" ->
                IF Calls(Desktop) = <<>> THEN Refuse ELSE begins(Calls(Desktop))
           [] machine.platform = "macos" /\ path # "relative" ->
                IF Attached = {} THEN Refuse
                ELSE \E s \in SetToSeqs(Attached) : begins([i \in DOMAIN s |-> Call("shell", s[i])])
           [] machine.platform = "windows" ->
                IF Attached = {} THEN begins(<<Call("shell", NullMonitor)>>)
                ELSE \E s \in SetToSeqs(Attached) : begins([i \in DOMAIN s |-> Call("shell", s[i])])
  /\ UNCHANGED <<machine, shows, readback, calm, happenings>>

\* The shell cannot be reached: no workspace, no COM apartment, no coclass.
ShellFails ==
  /\ Dynamic /\ setter.step = "idle" /\ readback.step = "idle"
  /\ Refuse /\ steady' = Attached
  /\ UNCHANGED <<machine, shows, readback, calm, happenings>>

Calling == setter.step = "calls"
NextCall == Head(setter.left)
Installed == NextCall.tool \in machine.tools
Painted == {p \in Attached : NextCall.place \in {p, NullMonitor}}
Paints == shows' = [p \in Attached |-> IF p \in Painted THEN setter.path ELSE shows[p]]

\* The call is made and accepted. One of the X11 tools is enough.
CallSucceeds ==
  /\ Calling /\ Installed /\ NextCall.place \in Attached \cup {NullMonitor}
  /\ Paints
  /\ setter' = IF Tail(setter.left) = <<>> \/ Desktop = "x11"
               THEN [step |-> "done", result |-> "ok", path |-> setter.path]
               ELSE [setter EXCEPT !.left = Tail(@)]
  /\ UNCHANGED <<machine, steady, readback, calm, happenings>>

\* Mutant: what one place refuses does not keep the set from succeeding.
CallFailsOn ==
  /\ Calling /\ Installed
  /\ setter' = IF Tail(setter.left) = <<>> THEN [step |-> "done", result |-> "ok", path |-> setter.path]
               ELSE [setter EXCEPT !.left = Tail(@)]
  /\ UNCHANGED <<machine, shows, steady, readback, calm, happenings>>

\* It is refused, because the screen is gone or for a reason of its own, before or after
\* the image was changed: the set ends there.
CallFails ==
  /\ Calling /\ Installed /\ Refuse
  /\ UNCHANGED shows \/ Paints
  /\ UNCHANGED <<machine, steady, readback, calm, happenings>>

\* The tool is not on the PATH. Of the three X11 tools the next is tried.
ToolMissing ==
  /\ Calling /\ ~Installed
  /\ IF Desktop = "x11" /\ Tail(setter.left) # <<>> THEN setter' = [setter EXCEPT !.left = Tail(@)] ELSE Refuse
  /\ UNCHANGED <<machine, shows, steady, readback, calm, happenings>>

-----------------------------------------------------------------------------
(* current *)

Answer(kind) == readback' = [step |-> "done", answer |-> kind]

BeginReadback ==
  /\ setter.step = "done" /\ readback.step = "idle"
  /\ CASE Desktop = "noop" -> Answer("none")
       [] Desktop = "gnome" /\ "gsettings" \in machine.tools ->
            readback' = [step |-> "reads", left |-> <<"picture-uri">>, images |-> {}]
       [] Dynamic -> IF Attached = {} THEN Answer(IF machine.platform = "macos" THEN "none" ELSE "error")
                     ELSE \E s \in SetToSeqs(Attached) :
                            readback' = [step |-> "reads", images |-> {},
                                         left |-> IF machine.platform = "macos" THEN <<Head(s)>> ELSE s]
       [] OTHER -> Answer("error")      \* no other desktop has a key that can be read
  /\ calm' = (steady = Attached /\ Attached # {})
  /\ UNCHANGED <<machine, shows, setter, steady, happenings>>

\* One without an image adds none. A screen that is gone has none on macOS, and refuses
\* its read on Windows.
ReadsPlace ==
  /\ readback.step = "reads" /\ readback.left # <<>>
  /\ LET p == Head(readback.left)
         image == IF p \in Attached THEN {shows[p]} \ {""} ELSE {}
     IN  IF p \in Attached \/ machine.platform = "macos"
         THEN readback' = [readback EXCEPT !.left = Tail(@), !.images = @ \cup image]
         ELSE Answer("error")
  /\ UNCHANGED <<machine, shows, setter, steady, calm, happenings>>

\* anchor_from: one image or none; screens that differ have no answer.
AnchorFrom ==
  /\ readback.step = "reads" /\ readback.left = <<>>
  /\ Answer(CASE readback.images = {} -> "none"
              [] Cardinality(readback.images) = 1 -> CHOOSE x \in readback.images : TRUE
              [] OTHER -> "error")
  /\ UNCHANGED <<machine, shows, setter, steady, calm, happenings>>

\* The tool or the shell refuses the read.
ReadRefused ==
  /\ readback.step = "reads" /\ Answer("error")
  /\ UNCHANGED <<machine, shows, setter, steady, calm, happenings>>

-----------------------------------------------------------------------------
(* Meanwhile *)

Happens == machine # NoMachine /\ happenings < MaxHappenings /\ happenings' = happenings + 1

PlugIn(p) ==
  /\ Happens /\ Dynamic /\ p \notin Attached
  /\ \E image \in {"", OtherImage} : shows' = [q \in Attached \cup {p} |-> IF q = p THEN image ELSE shows[q]]
  /\ UNCHANGED <<machine, setter, steady, readback, calm>>

Unplug(p) ==
  /\ Happens /\ Dynamic /\ p \in Attached
  /\ shows' = [q \in Attached \ {p} |-> shows[q]] /\ steady' = steady \ {p} /\ calm' = FALSE
  /\ UNCHANGED <<machine, setter, readback>>

OthersSet(p) ==
  /\ Happens /\ p \in Attached
  /\ \E image \in {"", OtherImage} : shows' = [shows EXCEPT ![p] = image]
  /\ steady' = steady \ {p} /\ calm' = FALSE
  /\ UNCHANGED <<machine, setter, readback>>

SettersNext ==
  \/ \E m \in Machines : SessionBegins(m)
  \/ \E path \in Asked : BeginSet(path)
  \/ ShellFails \/ CallSucceeds \/ CallFails \/ ToolMissing
  \/ BeginReadback \/ ReadsPlace \/ ReadRefused \/ AnchorFrom
  \/ \E p \in Screens : PlugIn(p) \/ Unplug(p)
  \/ machine # NoMachine /\ \E p \in Attached : OthersSet(p)

SettersSpec == SettersInit /\ [][SettersNext]_setterVars
-----------------------------------------------------------------------------
\* "The caller asked for one image everywhere and must not be told it got it" (linux.rs): a
\* set that was accepted is on every place that was there when it began, has stayed, and that
\* nobody else has changed; and a readback that finds all places so says that image, or that
\* it cannot be asked, never another image or none. That one refused call ends the set, with
\* the places after it left as they were, is what the three backends do and not what
\* docs/architecture.md:1837 says of a screen (GoneScreenFailsAlone).
AcceptedIsEverywhere ==
  setter.result = "ok" /\ machine.platform # "noop" =>
    /\ \A p \in steady : shows[p] = setter.path
    /\ readback.step = "done" /\ calm => readback.answer \in {setter.path, "error"}

\* What row 6 of docs/architecture.md 7 says of a display that is disconnected during a set: it
\* "fails that display's call and nothing else; the remaining displays are set". The call to
\* a screen that is gone ends no set that has a screen left to call.
GoneScreenFailsAlone ==
  [][Calling /\ NextCall.place \in Screens \ Attached /\ setter'.step = "done" =>
       \A call \in Range(Tail(setter.left)) : call.place \notin Attached]_setterVars
=============================================================================
