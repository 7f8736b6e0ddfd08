--------------------------- MODULE DesktopCapture ---------------------------
(***************************************************************************)
(* How a frame of the Windows desktop gets into an encoder, with the mouse *)
(* pointer on it or not: display_ddup_vram_t::snapshot, which keeps the    *)
(* last frame in an image or in a surface of its own, the images that the  *)
(* capture thread shares with the encoders, and the textures that an       *)
(* encoder opens of them (src/platform/windows/display_vram.cpp,           *)
(* display_base.cpp); display_ddup_ram_t (display_ram.cpp), which copies   *)
(* every frame through the CPU; and Windows.Graphics.Capture               *)
(* (display_wgc.cpp), whose frames come on a thread of their own.          *)
(*                                                                         *)
(* What an image shows is the number of the desktop's frame, 0 for black,  *)
(* and whether the pointer has been drawn.  A capture that fails or finds  *)
(* the mode changed ends, with all that it has, and a new one begins.      *)
(***************************************************************************)
EXTENDS Integers

CONSTANTS
  Backends, \* those of "vram", "ram" and "wgc" that may be chosen
  Images,   \* of the pool; 12 in the code
  Encoders, \* those that the images are pushed to
  None,
  MaxFrames, MaxTextures \* bounds

VARIABLES
  backend,
  pc,         \* where snapshot is: "acquire", "last", "out" or "over"
  frame,      \* the frame acquired last; 0 before the first
  visible,    \* cursor_alpha.visible || cursor_xor.visible
  src,        \* whether this snapshot has a frame
  blend,      \* blend_mouse_cursor_flag
  last_frame, \* last_frame_variant: None, an image, or "surface"
  surface,    \* what the surface shows
  produced,   \* Windows.Graphics.Capture: the frame that waits, or None
  imgs,       \* img_d3d_t: texture, dummy, and what it shows
  textures,   \* how many there have been
  next,       \* images: the image that each encoder gets next, and what it
              \* was pushed with
  at,         \* the one that each encoder has
  opened,     \* img_ctx_map: the texture that each has open of an image
  stale,      \* history: who has drawn from a texture of the past
  aliased     \* history: textures that an image had one after the other at
              \* one address

snapVars == <<frame, visible, src, blend, last_frame, surface>>
poolVars == <<imgs, textures>>
encVars == <<next, at, opened, stale, aliased>>
vars == <<backend, pc, snapVars, produced, poolVars, encVars>>

Black == [frame |-> 0, cursor |-> FALSE]
Frame(n, cursor) == [frame |-> n, cursor |-> cursor]
NewImage == [texture |-> 0, dummy |-> FALSE, shows |-> Black]

Init ==
  /\ backend \in Backends
  /\ pc = "acquire" /\ frame = 0 /\ visible = FALSE /\ src = FALSE
  /\ blend = FALSE /\ last_frame = None /\ surface = Black
  /\ produced = None
  /\ imgs = [i \in Images |-> NewImage] /\ textures = 0
  /\ next = [e \in Encoders |-> None] /\ at = next
  /\ opened = [e \in Encoders |-> [i \in Images |-> 0]]
  /\ stale = {} /\ aliased = {}

-----------------------------------------------------------------------------
(* next_frame, and what snapshot makes of it: there is a frame, or news of *)
(* the pointer, or nothing (a timeout).  Whether it is to be drawn is up   *)
(* to the pointer and to the user (display_cursor).                        *)
Acquire(hasFrame, hasMouse, shown, wanted) ==
  /\ backend # "wgc" /\ pc = "acquire"
  /\ hasFrame \/ hasMouse
  /\ frame' = (IF hasFrame THEN frame + 1 ELSE frame) /\ frame' <= MaxFrames
  /\ visible' = IF hasMouse THEN shown ELSE visible
  /\ src' = hasFrame /\ blend' = (visible' /\ wanted)
  /\ pc' = "last"
  /\ UNCHANGED <<backend, last_frame, surface, produced, poolVars, encVars>>

(* wgc_capture_t::on_frame_arrived: a frame that has not been taken is     *)
(* replaced.  The system has drawn the pointer, if it was asked to.        *)
on_frame_arrived(drawn) ==
  /\ backend = "wgc"
  /\ produced' = Frame((IF produced = None THEN frame ELSE produced.frame) + 1,
                       drawn)
  /\ produced'.frame <= MaxFrames
  /\ UNCHANGED <<backend, pc, snapVars, poolVars, encVars>>

(* wgc_capture_t::next_frame.                                              *)
Consume ==
  /\ backend = "wgc" /\ pc = "acquire" /\ produced # None
  /\ frame' = produced.frame /\ blend' = produced.cursor
  /\ produced' = None /\ pc' = "out"
  /\ UNCHANGED <<backend, visible, src, last_frame, surface, poolVars,
                 encVars>>

HeldBy(e) == {next[e], at[e]} \ {None}
Used(i) == \E e \in Encoders : \E held \in HeldBy(e) : held.img = i

\* pull_free_image_callback: an image that nobody else has.
Pulled(i) == i # last_frame /\ ~Used(i)

(* complete_img: a dummy has a texture of its own.  The allocator may use  *)
(* the address of the old one again.  In memory there are no textures.     *)
Completed(img, dummy) ==
  backend = "ram" \/ (img.texture # 0 /\ img.dummy = dummy)

complete_img(i, dummy, shows, reused) ==
  /\ imgs' = [imgs EXCEPT ![i] =
                [texture |-> IF Completed(@, dummy) THEN @.texture
                             ELSE textures + 1,
                 dummy |-> dummy, shows |-> shows]]
  /\ IF Completed(imgs[i], dummy)
     THEN ~reused /\ UNCHANGED <<textures, aliased>>
     ELSE /\ textures < MaxTextures /\ textures' = textures + 1
          /\ reused => imgs[i].texture # 0
          /\ aliased' = IF reused
                        THEN aliased \cup {<<imgs[i].texture, textures'>>}
                        ELSE aliased

-----------------------------------------------------------------------------
(* last_frame_action of display_ddup_vram_t::snapshot.                     *)
KeepLast ==
  /\ ~src /\ (blend <=> last_frame = "surface")
  /\ UNCHANGED <<last_frame, surface, poolVars, aliased>>

NothingKnown ==
  frame = 0 /\ UNCHANGED <<last_frame, surface, poolVars, aliased>>

CopySrcToSurface ==
  /\ src /\ blend
  /\ last_frame' = "surface" /\ surface' = Frame(frame, FALSE)
  /\ UNCHANGED <<poolVars, aliased>>

\* The image that was kept is given back before another one is pulled.
CopySrcToImg(i, reused) ==
  /\ src /\ ~blend /\ ~Used(i)
  /\ complete_img(i, FALSE, Frame(frame, FALSE), reused)
  /\ last_frame' = i /\ UNCHANGED surface

ReplaceImgWithSurface ==
  /\ ~src /\ blend /\ last_frame \in Images
  /\ surface' = imgs[last_frame].shows /\ last_frame' = "surface"
  /\ UNCHANGED <<poolVars, aliased>>

ReplaceSurfaceWithImg(i, reused) ==
  /\ ~src /\ ~blend /\ last_frame = "surface" /\ Pulled(i)
  /\ complete_img(i, FALSE, surface, reused)
  /\ last_frame' = i /\ surface' = Black

LastFrame ==
  /\ pc = "last" /\ pc' = "out" /\ src' = FALSE
  /\ IF backend = "ram" THEN UNCHANGED <<last_frame, surface, poolVars,
                                         aliased>>
     ELSE \/ NothingKnown
          \/ /\ frame > 0
             /\ \/ KeepLast \/ CopySrcToSurface \/ ReplaceImgWithSurface
                \/ \E i \in Images, reused \in BOOLEAN :
                     \/ CopySrcToImg(i, reused)
                     \/ ReplaceSurfaceWithImg(i, reused)
  /\ UNCHANGED <<backend, frame, visible, blend, produced, next, at, opened,
                 stale>>

-----------------------------------------------------------------------------
\* push_captured_image_callback: what was not taken is replaced.
Pushed(i) ==
  next' = [e \in Encoders |-> [img |-> i, meant |-> Frame(frame, blend)]]

(* out_frame_action.                                                       *)
ForwardLastImg ==
  /\ frame > 0 /\ ~blend /\ last_frame \in Images
  /\ Pushed(last_frame) /\ UNCHANGED <<poolVars, aliased>>

CopyLastSurfaceAndBlendCursor(i, reused) ==
  /\ frame > 0 /\ blend /\ last_frame = "surface" /\ Pulled(i)
  /\ complete_img(i, FALSE, Frame(surface.frame, TRUE), reused)
  /\ Pushed(i)

\* A dummy that has been used may have the pointer on it: it is cleared.
DummyFallback(i) ==
  /\ frame = 0 /\ Pulled(i)
  /\ complete_img(i, TRUE, Frame(0, blend), FALSE)
  /\ Pushed(i)

\* display_ddup_ram_t and display_wgc_vram_t: into an image of its own.
CopyToImg(i, reused) ==
  /\ Pulled(i)
  /\ complete_img(i, frame = 0, Frame(frame, blend), reused)
  /\ Pushed(i)

OutFrame ==
  /\ pc = "out" /\ pc' = "acquire" /\ blend' = FALSE
  /\ \/ backend = "vram" /\ ForwardLastImg
     \/ \E i \in Images, reused \in BOOLEAN :
          \/ backend = "vram" /\ CopyLastSurfaceAndBlendCursor(i, reused)
          \/ backend = "vram" /\ ~reused /\ DummyFallback(i)
          \/ backend # "vram" /\ CopyToImg(i, reused)
  /\ UNCHANGED <<backend, frame, visible, src, last_frame, surface, produced,
                 at, opened, stale>>

(* trim_imgs, which a pull runs when time is up: an image that is not used *)
(* is freed.  Its slot gets another, with an id of its own, of which no    *)
(* encoder has anything open.  What a pull frees is as well freed later,   *)
(* before the next one.                                                    *)
Trim(i) ==
  /\ pc # "over" /\ imgs[i] # NewImage /\ Pulled(i)
  /\ imgs' = [imgs EXCEPT ![i] = NewImage]
  /\ opened' = [e \in Encoders |-> [opened[e] EXCEPT ![i] = 0]]
  /\ UNCHANGED <<backend, pc, snapVars, produced, textures, next, at, stale,
                 aliased>>

(* The mode has changed, access is lost, the driver fails, or nobody wants *)
(* the frames any more.  Encoders finish what they have.                   *)
Ends ==
  /\ pc # "over" /\ pc' = "over" /\ last_frame' = None
  /\ UNCHANGED <<backend, frame, visible, src, blend, surface, produced,
                 poolVars, encVars>>

-----------------------------------------------------------------------------
Take(e) ==
  /\ at[e] = None /\ next[e] # None
  /\ at' = [at EXCEPT ![e] = next[e]] /\ next' = [next EXCEPT ![e] = None]
  /\ UNCHANGED <<backend, pc, snapVars, produced, poolVars, opened, stale,
                 aliased>>

OpenIsKept(e, i) == opened[e][i] # 0   \* mutant: whichever texture it is

(* initialize_image_context: what is open is compared by its address.      *)
IsOpen(e, i) ==
  /\ opened[e][i] # 0
  /\ \/ opened[e][i] = imgs[i].texture
     \/ <<opened[e][i], imgs[i].texture>> \in aliased

(* convert, and the end of the encoder's use of the image.                 *)
Convert(e) ==
  LET i == at[e].img
      open == IF IsOpen(e, i) THEN opened[e][i] ELSE imgs[i].texture
  IN /\ at[e] # None /\ at' = [at EXCEPT ![e] = None]
     /\ opened' = [opened EXCEPT ![e][i] = open]
     /\ stale' = IF open = imgs[i].texture THEN stale ELSE stale \cup {e}
     /\ UNCHANGED <<backend, pc, snapVars, produced, poolVars, next, aliased>>

Next ==
  \/ \E f, m, shown, wanted \in BOOLEAN : Acquire(f, m, shown, wanted)
  \/ \E drawn \in BOOLEAN : on_frame_arrived(drawn)
  \/ Consume \/ LastFrame \/ OutFrame
  \/ \E i \in Images : Trim(i)
  \/ Ends
  \/ \E e \in Encoders : Take(e) \/ Convert(e)

Spec == Init /\ [][Next]_vars

-----------------------------------------------------------------------------
(* What an encoder has or gets next is what was captured for it, however   *)
(* often the frame, the surface and the images have changed roles since    *)
(* (snapshot, pull_free_image_callback).                                   *)
ImagesStayWhole ==
  \A e \in Encoders : \A held \in HeldBy(e) :
    imgs[held.img].shows = held.meant

(* The surface and the kept image are the frame that the next pointer is   *)
(* drawn onto: the last one, without a pointer.                            *)
LastFrameIsClean ==
  backend = "vram" /\ pc \in {"acquire", "out"} /\ frame > 0 =>
    /\ last_frame = "surface" => surface = Frame(frame, FALSE)
    /\ last_frame \in Images => imgs[last_frame].shows = Frame(frame, FALSE)

(* No encoder draws from a texture that its image has no longer, up to one *)
(* whose address was used again (initialize_image_context).                *)
TexturesAreCurrent == stale # {} => aliased # {}

CapturedIsShown == ImagesStayWhole /\ LastFrameIsClean /\ TexturesAreCurrent

-----------------------------------------------------------------------------
(* What it rests on.                                                       *)
Shown == [frame : Nat, cursor : BOOLEAN]
Held == [img : Images, meant : Shown]

TypeOK ==
  /\ backend \in Backends /\ pc \in {"acquire", "last", "out", "over"}
  /\ frame \in Nat /\ visible \in BOOLEAN /\ src \in BOOLEAN
  /\ blend \in BOOLEAN
  /\ last_frame \in Images \cup {None, "surface"} /\ surface \in Shown
  /\ produced \in Shown \cup {None}
  /\ imgs \in [Images -> [texture : Nat, dummy : BOOLEAN, shows : Shown]]
  /\ textures \in Nat
  /\ next \in [Encoders -> Held \cup {None}]
  /\ at \in [Encoders -> Held \cup {None}]

\* What is kept is clean too where snapshot has no frame to put in its place.
Clean ==
  (/\ backend = "vram" /\ frame > 0
   /\ pc \in {"acquire", "out"} \/ (pc = "last" /\ ~src)) =>
    /\ last_frame = "surface" => surface = Frame(frame, FALSE)
    /\ last_frame \in Images => imgs[last_frame].shows = Frame(frame, FALSE)

IInv == TypeOK /\ Clean /\ ImagesStayWhole /\ TexturesAreCurrent
=============================================================================
