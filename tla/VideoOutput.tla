----------------------------- MODULE VideoOutput -----------------------------
(* Where the pictures go: the windows that the surfaces of the activities     *)
(* bring, GLVideoView, which renders to one of them, and XEGL.  Each player   *)
(* has a view and a thread that renders; `window' of xplay.cpp and the XEGL   *)
(* are one for the process, so players can disturb each other.                *)
(* Names that MediaSync has too begin with Out, so that both can be extended. *)
EXTENDS Naturals

CONSTANTS Players,    \* Xplay objects, each created and started once at most
          MaxWindows, \* bound: surfaces that become available
          Nobody, NoWindow

ASSUME WindowsAssumption == MaxWindows \in Nat /\ NoWindow \notin 0..MaxWindows
ASSUME NobodyAssumption  == Nobody \notin Players

Windows == 1..MaxWindows
Blank   == 0            \* a texture that was made without a window

VARIABLES window,    \* `window' of xplay.cpp
          owner,     \* whose surface a window is
          released,  \* windows given back with ANativeWindow_release
          phase,     \* of each player: which calls have been made
          dropping,  \* the player _release() is about
          surface,   \* where the thread of onSurfaceTextureAvailable is
          arg,       \* the window it passes on
          own,       \* MediaPlayer::window
          view,      \* GLVideoView::view
          texture,   \* GLVideoView::texture: the window it was made for
          thread,    \* where the thread that renders is
          egl,       \* whose surface and context XEGL has
          surfaces,  \* windows that have an EGL surface
          woken,     \* players whose thread was woken for no reason
          met,       \* the players that existed together with each player
          crashed

java    == <<owner, phase, dropping, met>>
arrival == <<surface, arg>>
graphic == <<egl, surfaces>>
outVars == <<window, released, java, arrival, own, view, texture, thread,
             graphic, woken, crashed>>

OutInit ==
    /\ window = NoWindow
    /\ owner = [w \in Windows |-> Nobody] /\ released = {}
    /\ phase = [p \in Players |-> "none"] /\ dropping = Nobody
    /\ surface = [p \in Players |-> "idle"]
    /\ arg = [p \in Players |-> NoWindow]
    /\ own = [p \in Players |-> NoWindow]
    /\ view = [p \in Players |-> NoWindow]
    /\ texture = [p \in Players |-> NoWindow]
    /\ thread = [p \in Players |-> "none"]
    /\ egl = Nobody /\ surfaces = {}
    /\ woken = {} /\ met = [p \in Players |-> {}]
    /\ crashed = FALSE

Exists(p)  == phase[p] \in {"open", "playing", "stopped"}
Deleted(p) == phase[p] = "deleted"

(* Mutant: setRender() takes no mutex.                                       *)
RenderingUnlocked(p) == FALSE

(* render() keeps the view's mutex, except where it waits.                   *)
Rendering(p) == thread[p] \in {"settle", "bind"}

-----------------------------------------------------------------------------
(* GLVideoView::setRender: a picture that waits for a window goes on, also   *)
(* when there is none.                                                       *)
SetRender(p, w) ==
    /\ ~Rendering(p)
    /\ view' = [view EXCEPT ![p] = w]
    /\ thread' = [thread EXCEPT ![p] = IF @ = "wait" THEN "bind" ELSE @]

(* MediaPlayer::initView keeps the player's mutex while it calls setRender().*)
InView(p) == surface[p] = "set"

-----------------------------------------------------------------------------
(* The UI thread: one activity for each player.                              *)
UiFree == dropping = Nobody

(* onCreate: buildPlayer(), then setDataSource(), which passes on a window   *)
(* that is there: another player's.                                          *)
Create(p) ==
    /\ UiFree /\ phase[p] = "none"
    /\ phase' = [phase EXCEPT ![p] = "open"]
    /\ met' = [q \in Players |->
                 IF q = p THEN {r \in Players : Exists(r)}
                 ELSE IF Exists(q) THEN met[q] \cup {p} ELSE met[q]]
    /\ own' = [own EXCEPT ![p] = window]
    /\ view' = [view EXCEPT ![p] = window]
    /\ UNCHANGED <<window, released, owner, dropping, arrival, texture, thread,
                   graphic, woken, crashed>>

(* openSource() sets the player's window again, start() starts the thread.   *)
Start(p) ==
    /\ UiFree /\ phase[p] = "open" /\ ~InView(p)
    /\ phase' = [phase EXCEPT ![p] = "playing"]
    /\ thread' = [thread EXCEPT ![p] = "check"]
    /\ view' = [view EXCEPT ![p] = IF own[p] # NoWindow THEN own[p] ELSE @]
    /\ UNCHANGED <<window, released, owner, dropping, met, arrival, own,
                   texture, graphic, woken, crashed>>

StopPlayer(p) ==
    /\ UiFree /\ phase[p] \in {"open", "playing"} /\ ~InView(p)
    /\ phase' = [phase EXCEPT ![p] = "stopped"]
    /\ UNCHANGED <<window, released, owner, dropping, met, arrival, own, view,
                   texture, thread, graphic, woken, crashed>>

(* onDestroy: MediaPlayer::release() waits for nobody, ~GLVideoView takes    *)
(* the EGL of the process down ...                                           *)
Release(p) ==
    /\ UiFree /\ phase[p] = "stopped"
    /\ phase' = [phase EXCEPT ![p] = "deleted"]
    /\ dropping' = p
    /\ egl' = Nobody /\ surfaces' = {}
    /\ own' = [own EXCEPT ![p] = NoWindow]
    /\ view' = [view EXCEPT ![p] = NoWindow]
    /\ texture' = [texture EXCEPT ![p] = NoWindow]
    /\ UNCHANGED <<window, released, owner, met, arrival, thread, woken,
                   crashed>>

(* Mutant: `window' is not reset.                                            *)
DropWindowKept ==
    /\ dropping # Nobody
    /\ dropping' = Nobody
    /\ crashed' = (window = NoWindow)
    /\ released' = released \cup ({window} \cap Windows)
    /\ UNCHANGED <<window, owner, phase, met, arrival, own, view, texture,
                   thread, graphic, woken>>

(* ... and _release() gives back the window that came last, whosever it is.  *)
DropWindow ==
    /\ dropping # Nobody
    /\ dropping' = Nobody
    /\ crashed' = (window = NoWindow)
    /\ released' = released \cup ({window} \cap Windows)
    /\ window' = NoWindow
    /\ UNCHANGED <<owner, phase, met, arrival, own, view, texture, thread,
                   graphic, woken>>

Ui == \/ DropWindow
      \/ \E p \in Players : Create(p) \/ Start(p) \/ StopPlayer(p) \/ Release(p)

-----------------------------------------------------------------------------
(* The thread that brings a new surface; the one before has ended.           *)
UnchangedByArrival == UNCHANGED <<released, phase, dropping, met, texture,
                                  graphic, woken>>

Reaches(p, from, to) == surface[p] = from /\ surface' = [surface EXCEPT ![p] = to]

(* onSurfaceTextureAvailable only starts the thread.                         *)
Available(p) == /\ Reaches(p, "idle", "new") /\ UiFree /\ Exists(p)
                /\ \E w \in Windows : owner[w] = Nobody
                /\ UNCHANGED <<window, owner, arg, own, view, thread, crashed>>
                /\ UnchangedByArrival

(* The window before is not given back.                                      *)
Arrive(p) == \E w \in Windows :
    /\ Reaches(p, "new", "test")
    /\ owner[w] = Nobody /\ \A v \in 1..(w - 1) : owner[v] # Nobody
    /\ owner' = [owner EXCEPT ![w] = p]
    /\ window' = w
    /\ UNCHANGED <<arg, own, view, thread, crashed>> /\ UnchangedByArrival

Test(p) == /\ Reaches(p, "test", IF window = NoWindow THEN "idle" ELSE "load")
           /\ UNCHANGED <<window, owner, arg, own, view, thread, crashed>>
           /\ UnchangedByArrival

(* `window' is read again: another player may have set or released it.       *)
Load(p) == /\ Reaches(p, "load", "call")
           /\ arg' = [arg EXCEPT ![p] = window]
           /\ UNCHANGED <<window, owner, own, view, thread, crashed>>
           /\ UnchangedByArrival

(* A player that was released keeps its MediaPlayer, but has no view.        *)
Call(p) == /\ Reaches(p, "call", IF Deleted(p) THEN "idle" ELSE "set")
           /\ own' = [own EXCEPT ![p] = arg[p]]
           /\ arg' = [arg EXCEPT ![p] = NoWindow]
           /\ UNCHANGED <<window, owner, view, thread, crashed>>
           /\ UnchangedByArrival

Set(p) == /\ Reaches(p, "set", "idle")
          /\ IF Deleted(p) THEN crashed' = TRUE /\ UNCHANGED <<view, thread>>
                           ELSE SetRender(p, own[p]) /\ UNCHANGED crashed
          /\ UNCHANGED <<window, owner, arg, own>>
          /\ UnchangedByArrival

Surface(p) == Arrive(p) \/ Test(p) \/ Load(p) \/ Call(p) \/ Set(p)

-----------------------------------------------------------------------------
(* videoPlay() and GLVideoView::render on the detached thread.               *)
UnchangedByVideo == UNCHANGED <<window, released, java, arrival, own, view>>

Goes(p, from, to) == thread[p] = from /\ thread' = [thread EXCEPT ![p] = to]

(* Mutant: no wait for a window.                                             *)
EnterNoWait(p) ==
    /\ Goes(p, "check", IF phase[p] = "stopped" THEN "ended" ELSE "bind")
    /\ UNCHANGED <<texture, graphic, woken>> /\ UnchangedByVideo

Enter(p) == /\ Goes(p, "check", IF phase[p] = "stopped" THEN "ended"
                                ELSE IF view[p] = NoWindow THEN "settle"
                                ELSE "bind")
            /\ UNCHANGED <<texture, graphic, woken>> /\ UnchangedByVideo

Settle(p) == /\ Goes(p, "settle", "wait")
             /\ UNCHANGED <<texture, graphic, woken>> /\ UnchangedByVideo

(* The wait is not repeated.                                                 *)
SpuriousWakeup(p) == /\ Goes(p, "wait", "bind")
                     /\ woken' = woken \cup {p}
                     /\ UNCHANGED <<texture, graphic>> /\ UnchangedByVideo

(* XTexture::create and init, once: init() without window does nothing.      *)
(* XEGL::init overwrites what another player has there, and leaves no        *)
(* surface if the window has one already.                                    *)
Bind(p) ==
    /\ Goes(p, "bind", "check")
    /\ IF texture[p] # NoWindow THEN UNCHANGED <<texture, graphic>>
       ELSE IF view[p] = NoWindow
         THEN texture' = [texture EXCEPT ![p] = Blank] /\ UNCHANGED graphic
       ELSE /\ texture' = [texture EXCEPT ![p] = view[p]]
            /\ egl' = IF view[p] \in surfaces THEN Nobody ELSE p
            /\ surfaces' = surfaces \cup {view[p]}
    /\ UNCHANGED woken /\ UnchangedByVideo

Render(p) == Enter(p) \/ Settle(p) \/ Bind(p)

(* A thread that is left over when release() has deleted what it uses.       *)
UseDeleted(p) == /\ Deleted(p) /\ thread[p] \notin {"none", "wait", "ended"}
                 /\ crashed' = TRUE
                 /\ UNCHANGED <<window, released, java, arrival, own, view,
                                texture, thread, graphic, woken>>

Renderer(p) == \/ ~Deleted(p) /\ Render(p) /\ UNCHANGED crashed
               \/ UseDeleted(p)

-----------------------------------------------------------------------------
OutNext == /\ ~crashed
           /\ \/ Ui
              \/ \E p \in Players :
                   \/ Available(p) \/ Surface(p) \/ Renderer(p)
                   \/ ~Deleted(p) /\ SpuriousWakeup(p) /\ UNCHANGED crashed

OutSpec == OutInit /\ [][OutNext]_outVars

(* Threads that have begun go on; no surface has to come and no wakeup.      *)
OutFairSpec ==
    /\ OutSpec
    /\ \A p \in Players :
         /\ WF_outVars(~crashed /\ Surface(p))
         /\ WF_outVars(~crashed /\ Renderer(p))

-----------------------------------------------------------------------------
OutTypeOK ==
    /\ window \in Windows \cup {NoWindow}
    /\ owner \in [Windows -> Players \cup {Nobody}] /\ released \subseteq Windows
    /\ phase \in [Players -> {"none", "open", "playing", "stopped", "deleted"}]
    /\ dropping \in Players \cup {Nobody}
    /\ surface \in [Players -> {"idle", "new", "test", "load", "call", "set"}]
    /\ arg \in [Players -> Windows \cup {NoWindow}]
    /\ own \in [Players -> Windows \cup {NoWindow}]
    /\ view \in [Players -> Windows \cup {NoWindow}]
    /\ texture \in [Players -> Windows \cup {Blank, NoWindow}]
    /\ thread \in [Players -> {"none", "check", "settle", "wait", "bind", "ended"}]
    /\ egl \in Players \cup {Nobody} /\ surfaces \subseteq Windows
    /\ woken \subseteq Players /\ met \in [Players -> SUBSET Players]
    /\ crashed \in BOOLEAN

(* A picture that waits for a window is rendered when initView() is called:  *)
(* the notification is not lost though the wait tests the view once, before  *)
(* it, and another player may take the window away on the way                *)
(* (GLVideoView.cpp:77-89).                                                  *)
RenderReturns == \A p \in Players :
    thread[p] \in {"settle", "wait"} /\ surface[p] \in {"call", "set"}
      ~> thread[p] \in {"check", "ended"} \/ Deleted(p) \/ crashed

RendersTo(p, q) == texture[p] \in Windows /\ owner[texture[p]] = q

(* A player that renders is seen in its activity, unless a wakeup came for   *)
(* no reason, it got the window of another player, or a player of its        *)
(* lifetime took XEGL or was released: the texture is bound to the first     *)
(* window for good and there is one XEGL (GLVideoView.cpp:86-93, XEGL.cpp:   *)
(* 141-144).                                                                 *)
UnseenReason == \A p \in Players :
    Exists(p) /\ texture[p] # NoWindow =>
        \/ egl = p /\ RendersTo(p, p)
        \/ p \in woken
        \/ \E q \in Players \ {p} :
             \/ RendersTo(p, q)
             \/ q \in met[p] /\ (texture[q] # NoWindow \/ Deleted(q))

(* A player renders to a window that was given back only if another player   *)
(* of its lifetime was released: players used one after the other do not     *)
(* get each other's dead window (xplay.cpp:143, 201-202).                    *)
DeadWindowReason == \A p \in Players :
    Exists(p) /\ view[p] \in released => \E q \in met[p] : Deleted(q)
=============================================================================
