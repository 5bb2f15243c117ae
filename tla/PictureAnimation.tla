-------------------------- MODULE PictureAnimation --------------------------
(***************************************************************************)
(* CPictureEx (PictureEx.cpp): an animated GIF control.  The window's      *)
(* thread, here gui, calls Load, UnLoad, Draw, Stop and the destructor;    *)
(* Draw starts a thread that shows the frames until Stop asks it to leave. *)
(* The two share the fields of the object and no lock.                     *)
(*                                                                         *)
(* One action is one access to a shared field or one system call, together *)
(* with the evaluation of its arguments.  A handle value that was closed   *)
(* may be given out again, as Windows does.                                *)
(*                                                                         *)
(* What the application and the scheduler may do are parameters:           *)
(* DrawTwice lets Draw be called while an animation runs, DrawAtOnce lets  *)
(* it be called while a stopped thread has not returned yet, WaitExpires   *)
(* lets the five seconds of Stop (line 962) pass.                          *)
(***************************************************************************)
EXTENDS Integers, Sequences

CONSTANTS Thread,       \* the animation threads that exist at one time
          Handle,       \* the values a thread handle can have
          NULL,         \* the handle 0
          NoThread,     \* no thread
          MaxFrames,    \* bound: the frames of a GIF
          DrawTwice, DrawAtOnce, WaitExpires

ASSUME PictureAssumption ==
  /\ NULL \notin Handle
  /\ NoThread \notin Thread
  /\ MaxFrames \in Nat
  /\ {DrawTwice, DrawAtOnce, WaitExpires} \subseteq BOOLEAN

VARIABLES m_bIsInitialized, m_bIsGIF, m_bIsPlaying, m_bExitThread,
          m_hExitEvent,   \* whether the manual-reset event is signalled
          m_hThread,
          m_arrFrames,    \* the disposal method of each frame
          m_nCurrFrame,
          m_hDispMemDC,   \* whether a saved background is held
          handle,         \* the thread an open handle stands for
          pc,             \* where each animation thread stands
          gui,            \* where the window's thread stands
          after,          \* what it does once Stop returns
          waits,          \* the thread Stop waits for
          lastShown       \* history: the frame rendered last, -1 for none

picture == <<m_bIsInitialized, m_bIsGIF, m_arrFrames>>
flags == <<m_bIsPlaying, m_bExitThread, m_hExitEvent>>
frame == <<m_nCurrFrame, m_hDispMemDC, lastShown>>
threads == <<m_hThread, handle, pc>>
vars == <<picture, flags, frame, threads, gui, after, waits>>

-----------------------------------------------------------------------------
(* Disposal methods: 3 saves and restores the background, 0 stands for all *)
(* the others, which keep no state.                                        *)
Disposal == {0, 3}

Picture == UNION {[1..n -> Disposal] : n \in 0..MaxFrames}

IsAnimatedGIF == m_bIsGIF /\ Len(m_arrFrames) > 1

(* m_arrFrames[m_nCurrFrame] is an element of the vector.  Outside it the  *)
(* behaviour is undefined: the model goes no further.                      *)
FrameReadable == m_nCurrFrame < Len(m_arrFrames)

DisposalNow == m_arrFrames[m_nCurrFrame + 1]

(* A thread that has not come to the end of ThreadAnimation, one that is   *)
(* about to read a frame, and one that has only its handle left to clear.  *)
Animating(t) == pc[t] \in {"begin", "restore", "loop", "render", "rendered",
                           "delay", "delayed", "dispose", "wrap", "leave"}
ReadsFrame(t) == pc[t] \in {"restore", "render", "delay", "dispose"}
Returning(t) == pc[t] \in {"close", "zero"}

(* CloseHandle: an open handle is released, any other value is refused. *)
Closed(h) == IF h \in Handle THEN [handle EXCEPT ![h] = NoThread] ELSE handle

(* The thread a handle stands for, NoThread for NULL and a closed handle. *)
ThreadOf(h) == IF h \in Handle THEN handle[h] ELSE NoThread

ThreadAt(t, from, to) ==
  /\ pc[t] = from
  /\ pc' = [pc EXCEPT ![t] = to]
  /\ UNCHANGED <<picture, gui, after, waits>>

Gui(from, to) ==
  /\ gui = from
  /\ gui' = to

Init ==
  /\ m_bIsInitialized = FALSE /\ m_bIsGIF = FALSE /\ m_arrFrames = <<>>
  /\ m_bIsPlaying = FALSE /\ m_bExitThread = FALSE /\ m_hExitEvent = FALSE
  /\ m_hThread = NULL
  /\ handle = [h \in Handle |-> NoThread]
  /\ pc = [t \in Thread |-> "done"]
  /\ m_nCurrFrame = 0 /\ m_hDispMemDC = FALSE /\ lastShown = -1
  /\ gui = "idle" /\ after = "idle" /\ waits = NoThread

-----------------------------------------------------------------------------
(* The animation thread: _ThreadAnimation and ThreadAnimation.             *)

Begin(t) ==
  /\ ThreadAt(t, "begin", "restore")
  /\ m_bIsPlaying' = TRUE
  /\ UNCHANGED <<m_bExitThread, m_hExitEvent, m_hThread, handle, frame>>

(* A background left over from before Stop is put back and its DC freed. *)
PutBack == m_hDispMemDC' = (m_hDispMemDC /\ DisposalNow # 3)

(* Mutant: the background left over is forgotten. *)
RestoreKeepsDC(t) ==
  /\ ThreadAt(t, "restore", "loop")
  /\ FrameReadable
  /\ UNCHANGED <<frame, flags, m_hThread, handle>>

Restore(t) ==
  /\ ThreadAt(t, "restore", "loop")
  /\ FrameReadable
  /\ PutBack
  /\ UNCHANGED <<m_nCurrFrame, lastShown, flags, m_hThread, handle>>

LoopTest(t) ==
  /\ ThreadAt(t, "loop", IF m_bExitThread THEN "leave" ELSE "render")
  /\ UNCHANGED <<flags, frame, m_hThread, handle>>

(* With disposal 3 the background is saved in a new DC, whose creation may *)
(* fail; then the frame is rendered.                                       *)
Render(t) ==
  /\ ThreadAt(t, "render", "rendered")
  /\ FrameReadable
  /\ IF DisposalNow = 3 THEN m_hDispMemDC' \in BOOLEAN ELSE UNCHANGED m_hDispMemDC
  /\ lastShown' = m_nCurrFrame
  /\ UNCHANGED <<m_nCurrFrame, flags, m_hThread, handle>>

TestRendered(t) ==
  /\ ThreadAt(t, "rendered", IF m_bExitThread THEN "leave" ELSE "delay")
  /\ UNCHANGED <<flags, frame, m_hThread, handle>>

(* The wait for the exit event ends with the event or the frame's delay, a *)
(* bounded time: it can always end.                                        *)
Delay(t) ==
  /\ ThreadAt(t, "delay", "delayed")
  /\ FrameReadable
  /\ UNCHANGED <<flags, frame, m_hThread, handle>>

TestDelayed(t) ==
  /\ ThreadAt(t, "delayed", IF m_bExitThread THEN "leave" ELSE "dispose")
  /\ UNCHANGED <<flags, frame, m_hThread, handle>>

(* Mutant: the frame number is not advanced. *)
DisposeButStay(t) ==
  /\ ThreadAt(t, "dispose", "wrap")
  /\ FrameReadable
  /\ PutBack
  /\ UNCHANGED <<m_nCurrFrame, lastShown, flags, m_hThread, handle>>

Dispose(t) ==
  /\ ThreadAt(t, "dispose", "wrap")
  /\ FrameReadable
  /\ PutBack
  /\ m_nCurrFrame' = m_nCurrFrame + 1
  /\ UNCHANGED <<lastShown, flags, m_hThread, handle>>

Wrap(t) ==
  /\ ThreadAt(t, "wrap", "loop")
  /\ m_nCurrFrame' = IF m_nCurrFrame = Len(m_arrFrames) THEN 0 ELSE m_nCurrFrame
  /\ UNCHANGED <<m_hDispMemDC, lastShown, flags, m_hThread, handle>>

(* Mutant: the thread leaves without clearing its flag. *)
LeaveStillPlaying(t) ==
  /\ ThreadAt(t, "leave", "close")
  /\ UNCHANGED <<flags, m_hThread, handle, frame>>

Leave(t) ==
  /\ ThreadAt(t, "leave", "close")
  /\ m_bIsPlaying' = FALSE
  /\ UNCHANGED <<m_bExitThread, m_hExitEvent, m_hThread, handle, frame>>

(* "this thread has finished its work so we close the handle" *)
CloseOwn(t) ==
  /\ ThreadAt(t, "close", "zero")
  /\ handle' = Closed(m_hThread)
  /\ UNCHANGED <<m_hThread, flags, frame>>

(* "and init the handle to zero (so that Stop() doesn't Wait on it)" *)
ZeroOwn(t) ==
  /\ ThreadAt(t, "zero", "done")
  /\ m_hThread' = NULL
  /\ UNCHANGED <<handle, flags, frame>>

ThreadStep(t) ==
  \/ Begin(t) \/ Restore(t) \/ LoopTest(t) \/ Render(t) \/ TestRendered(t)
  \/ Delay(t) \/ TestDelayed(t) \/ Dispose(t) \/ Wrap(t) \/ Leave(t)
  \/ CloseOwn(t) \/ ZeroOwn(t)

-----------------------------------------------------------------------------
(* The window's thread: Stop, alone or at the start of UnLoad, which Load  *)
(* and the destructor call.                                                *)

CallStop ==
  /\ Gui("idle", "stopFlag")
  /\ after' \in {"idle", "unload", "load", "destroy"}
  /\ m_bIsPlaying' = FALSE
  /\ UNCHANGED <<picture, frame, threads, waits, m_bExitThread, m_hExitEvent>>

(* Mutant: the request to exit is not made. *)
StopWithoutFlag ==
  /\ Gui("stopFlag", "stopSignal")
  /\ UNCHANGED <<picture, frame, threads, after, waits, flags>>

StopFlag ==
  /\ Gui("stopFlag", "stopSignal")
  /\ m_bExitThread' = TRUE
  /\ UNCHANGED <<picture, frame, threads, after, waits, m_bIsPlaying, m_hExitEvent>>

StopSignal ==
  /\ Gui("stopSignal", "stopTest")
  /\ m_hExitEvent' = TRUE
  /\ UNCHANGED <<picture, frame, threads, after, waits, m_bIsPlaying, m_bExitThread>>

StopTest ==
  /\ Gui("stopTest", IF m_hThread # NULL THEN "stopWait" ELSE "stopReset")
  /\ UNCHANGED <<picture, frame, threads, after, waits, flags>>

StopWait ==
  /\ Gui("stopWait", "stopWaiting")
  /\ waits' = ThreadOf(m_hThread)
  /\ UNCHANGED <<picture, frame, threads, after, flags>>

(* Mutant: no wait. *)
StopDoesNotWait ==
  /\ Gui("stopWaiting", "stopClose")
  /\ waits' = NoThread
  /\ UNCHANGED <<picture, frame, threads, after, flags>>

(* The wait ends when the thread has returned, at once when there was no   *)
(* valid handle to wait on (WAIT_FAILED), or after five seconds.           *)
StopWaited ==
  /\ Gui("stopWaiting", "stopClose")
  /\ waits \notin {t \in Thread : pc[t] # "done"} \/ WaitExpires
  /\ waits' = NoThread
  /\ UNCHANGED <<picture, frame, threads, after, flags>>

StopClose ==
  /\ Gui("stopClose", "stopNull")
  /\ handle' = Closed(m_hThread)
  /\ UNCHANGED <<picture, frame, m_hThread, pc, after, waits, flags>>

StopNull ==
  /\ Gui("stopNull", "stopReset")
  /\ m_hThread' = NULL
  /\ UNCHANGED <<picture, frame, handle, pc, after, waits, flags>>

(* "make it possible to Draw() again" *)
StopReset ==
  /\ Gui("stopReset", "stopClear")
  /\ m_hExitEvent' = FALSE
  /\ UNCHANGED <<picture, frame, threads, after, waits, m_bIsPlaying, m_bExitThread>>

StopClear ==
  /\ Gui("stopClear", IF after = "idle" THEN "idle" ELSE "unload")
  /\ m_bExitThread' = FALSE
  /\ UNCHANGED <<picture, frame, threads, after, waits, m_bIsPlaying, m_hExitEvent>>

(* Mutant: the frame number is not reset. *)
UnloadButPosition ==
  /\ Gui("unload", CASE after = "load" -> "load"
                     [] after = "destroy" -> "destroyed"
                     [] OTHER -> "idle")
  /\ m_arrFrames' = <<>> /\ m_bIsInitialized' = FALSE /\ m_bIsGIF' = FALSE
  /\ m_hDispMemDC' = FALSE /\ lastShown' = -1
  /\ m_hThread' = NULL
  /\ m_bExitThread' = FALSE
  /\ UNCHANGED <<m_nCurrFrame, handle, pc, after, waits, m_bIsPlaying, m_hExitEvent>>

(* The rest of UnLoad: frames and DCs are released, the fields reset. *)
UnLoad ==
  /\ Gui("unload", CASE after = "load" -> "load"
                     [] after = "destroy" -> "destroyed"
                     [] OTHER -> "idle")
  /\ m_arrFrames' = <<>> /\ m_bIsInitialized' = FALSE /\ m_bIsGIF' = FALSE
  /\ m_nCurrFrame' = 0 /\ m_hDispMemDC' = FALSE /\ lastShown' = -1
  /\ m_hThread' = NULL
  /\ m_bExitThread' = FALSE
  /\ UNCHANGED <<handle, pc, after, waits, m_bIsPlaying, m_hExitEvent>>

(* The rest of Load: a picture, which is no GIF or a GIF of some frames;   *)
(* any step may fail, PrepareDC last, and leaves what was loaded so far.   *)
(* A GIF of one frame is kept as a static picture, outside m_arrFrames.    *)
Load ==
  /\ Gui("load", "idle")
  /\ m_bIsGIF' \in BOOLEAN
  /\ m_arrFrames' \in IF m_bIsGIF' THEN Picture ELSE {<<>>}
  /\ m_bIsInitialized' \in BOOLEAN
  /\ UNCHANGED <<frame, flags, threads, after, waits>>

(* When the application may call Draw (see the parameters above). *)
DrawAllowed ==
  \A t \in Thread : \/ pc[t] = "done"
                    \/ DrawTwice /\ Animating(t)
                    \/ DrawAtOnce /\ Returning(t)

(* The thread is created suspended, its handle stored; then it is resumed. *)
Draw ==
  /\ Gui("idle", "resume")
  /\ DrawAllowed
  /\ m_bIsInitialized /\ IsAnimatedGIF
  /\ \E t \in Thread, h \in Handle :
       /\ pc[t] = "done" /\ handle[h] = NoThread
       /\ \A g \in Handle : handle[g] # t
       /\ pc' = [pc EXCEPT ![t] = "suspended"]
       /\ handle' = [handle EXCEPT ![h] = t]
       /\ m_hThread' = h
  /\ UNCHANGED <<picture, flags, frame, after, waits>>

(* _beginthreadex fails and returns 0. *)
DrawFails ==
  /\ Gui("idle", "idle")
  /\ DrawAllowed
  /\ m_bIsInitialized /\ IsAnimatedGIF
  /\ m_hThread' = NULL
  /\ UNCHANGED <<picture, flags, frame, handle, pc, after, waits>>

Resume ==
  /\ Gui("resume", "idle")
  /\ LET t == ThreadOf(m_hThread)
     IN  pc' = IF t \in Thread /\ pc[t] = "suspended"
               THEN [pc EXCEPT ![t] = "begin"] ELSE pc
  /\ UNCHANGED <<picture, flags, frame, m_hThread, handle, after, waits>>

(* What the window's thread does inside a call, and the calls it can make. *)
GuiInside ==
  \/ StopFlag \/ StopSignal \/ StopTest \/ StopWait \/ StopWaited
  \/ StopClose \/ StopNull \/ StopReset \/ StopClear \/ UnLoad \/ Load \/ Resume
GuiCall == CallStop \/ Draw \/ DrawFails

Next == GuiCall \/ GuiInside \/ \E t \in Thread : ThreadStep(t)

(* Both kinds of threads are scheduled; nothing obliges the application to *)
(* call anything.                                                          *)
Fairness == WF_vars(GuiInside) /\ \A t \in Thread : WF_vars(ThreadStep(t))

Spec == Init /\ [][Next]_vars /\ Fairness

-----------------------------------------------------------------------------
(* The fields keep their types, and the current frame is an index of the   *)
(* vector or, between the increment and the test of its size (lines 937-   *)
(* 938), the size itself.                                                  *)
TypeOK ==
  /\ {m_bIsInitialized, m_bIsGIF, m_bIsPlaying, m_bExitThread,
      m_hExitEvent, m_hDispMemDC} \subseteq BOOLEAN
  /\ m_arrFrames \in Picture
  /\ m_nCurrFrame \in 0..Len(m_arrFrames)
  /\ m_hThread \in Handle \cup {NULL}
  /\ handle \in [Handle -> Thread \cup {NoThread}]
  /\ waits \in Thread \cup {NoThread}
  /\ lastShown \in -1..(MaxFrames - 1)

(* No animation thread reads a frame that UnLoad has released or that was  *)
(* never loaded (lines 815, 848, 899, 907): the vector is read without a   *)
(* check of its size.                                                      *)
FrameAccessValid == \A t \in Thread : ReadsFrame(t) => FrameReadable

(* Between calls, a null thread handle means that no thread animates: Stop *)
(* skips its wait (line 959) only when there is nothing to wait for, and   *)
(* "stops animation" (PictureEx.h line 221) when it does wait.             *)
NullHandleMeansQuiet ==
  gui = "idle" /\ m_hThread = NULL
    => \A t \in Thread : ~Animating(t) /\ pc[t] # "suspended"

(* Between calls, IsPlaying() tells whether a thread animates ("know if a  *)
(* GIF is currently playing", PictureEx.cpp lines 72-73), although three   *)
(* places of two threads write m_bIsPlaying (lines 800, 802, 956).         *)
IsPlayingAccurate ==
  gui = "idle" => (m_bIsPlaying <=> \E t \in Thread : Animating(t) /\ pc[t] # "begin")

(* A saved background is never lost: whenever a frame is about to save one *)
(* (line 862), the DC of an earlier one has been released, also after a    *)
(* stop in the middle of a frame and a new Draw.                           *)
NoBackgroundLeak == \A t \in Thread : pc[t] = "render" => ~m_hDispMemDC

(* The request to exit is not withdrawn (lines 454, 969) before the thread *)
(* has left its loop: a thread that missed it would animate for ever.      *)
ExitRequestHeld ==
  [][m_bExitThread /\ ~m_bExitThread' => \A t \in Thread : ~Animating(t)]_vars

Following(k) == IF k + 1 = Len(m_arrFrames) THEN 0 ELSE k + 1

(* Frames are shown in order, the first one first, each followed by the    *)
(* next, the last by the first, across any number of Stop and Draw calls.  *)
FramesInOrder ==
  [][lastShown' \in {lastShown, -1, Following(lastShown)}]_vars

(* Stop, and UnLoad up to its releases, returns: the thread notices the    *)
(* request wherever it is.                                                 *)
StopReturns == (gui = "stopFlag") ~> (gui \in {"idle", "load", "destroyed"})

(* A running animation comes to every frame unless it is asked to stop.    *)
EveryFrameShown ==
  \A k \in 0..(MaxFrames - 1) :
    (\E t \in Thread : Animating(t)) /\ k < Len(m_arrFrames)
      ~> (lastShown = k \/ m_bExitThread)

(* For the runs in which the application or the scheduler does more.       *)

(* Draw starts a thread only if one is needed: never two at a time.        *)
OneAnimation ==
  \A t, u \in Thread : Animating(t) /\ Animating(u) => t = u
=============================================================================
