--------------------------- MODULE OverlaySurface ---------------------------
(***************************************************************************)
(* The surface of the overlay (overlay/runtime.rs) with its renderer, the  *)
(* loader of images (overlay/assets.rs) and the Wayland compositor.        *)
(*                                                                         *)
(* One thread dispatches what the compositor sends and then ticks: events, *)
(* expiry, loaded images, focus, animation, surface.  phase keeps that     *)
(* order.  Pixels are [scene, size, assets]: what was drawn, how large,    *)
(* and with the images of which scene.  Which scenes are current is the    *)
(* matter of RelicScenes; here a scene comes and goes.                     *)
(***************************************************************************)
EXTENDS CompanionConstants, Naturals, Sequences, FiniteSets

VARIABLES
  phase,       \* dispatch, events or sync
  scene,       \* [kind, version]: what is to be shown; Reading is animated
  enabled,     \* overlay_enabled
  hud,         \* HudVisibility
  focus,       \* warframe_active
  revision,    \* Loader: the last request
  unfit,       \* Loader: a request that did not fit
  queue,       \* Loader: the request for the worker
  loading,     \* what the worker works on
  results,     \* what the worker has sent
  assets,      \* the scene the installed images are of
  picture,     \* Renderer: the cached static frame
  buffers,     \* the surface's buffers: [key, pixels, busy]
  surface,     \* [configured, asked, mapped, contextual, size]
  redraw,      \* None, Loading or Full
  waiting,     \* frame_pending
  configures,  \* configures on their way, by size, oldest first
  callbacks,   \* frame callbacks the compositor owes
  shown,       \* what is on the screen
  attached,    \* the buffer it is in, unless that was destroyed
  count        \* [ui, odd]: towards the bounds

loaderVars == <<revision, unfit, queue, loading, results>>
contentVars == <<scene, enabled, hud, focus>>
bufferVars == <<buffers, attached>>
drawnVars == <<picture, bufferVars, shown>>
overlayVars == <<phase, contentVars, loaderVars, assets, drawnVars, surface, redraw, waiting,
                 configures, callbacks, count>>

NoScene == [kind |-> "none", version |-> 0]
Reading == [kind |-> "Reading", version |-> 0]
Nothing == [rev |-> 0, assets |-> 0]
Blank == [scene |-> NoScene, size |-> "any", assets |-> 0]
Unkeyed == [scene |-> NoScene, size |-> "any"]

LoadingActive == enabled /\ focus /\ scene.kind = "Reading"
SceneShown == enabled /\ focus /\ scene # NoScene
StatusVisible == enabled /\ hud # "Hidden"

ClearBuffers == buffers' = <<>> /\ attached' = 0

Odd == count.odd < MaxOddities /\ count' = [count EXCEPT !.odd = @ + 1]

(***************************************************************************)
(* The loader.                                                             *)
(***************************************************************************)
Loads(s) == IF s.kind = "Rewards" THEN s.version ELSE 0

\* Loader::request: what is queued or pending is not waited for.
Request(s) ==
  LET request == [rev |-> revision + 1, assets |-> Loads(s)]
  IN  /\ revision' = revision + 1
      /\ IF queue = Nothing
           THEN queue' = request /\ unfit' = Nothing
           ELSE unfit' = request /\ UNCHANGED queue
      /\ UNCHANGED <<loading, results>>

LoaderTakes ==
  /\ loading = Nothing /\ queue # Nothing
  /\ loading' = IF queue.rev = revision THEN queue ELSE Nothing
  /\ queue' = Nothing
  /\ UNCHANGED <<phase, contentVars, revision, unfit, results, assets, drawnVars, surface,
                 redraw, waiting, configures, callbacks, count>>

\* A load that is overtaken is given up, or found out by the one who receives it.
LoaderEnds ==
  /\ loading # Nothing
  /\ loading' = Nothing
  /\ \/ results = Nothing /\ results' = loading
     \/ loading.rev # revision /\ UNCHANGED results
  /\ UNCHANGED <<phase, contentVars, revision, unfit, queue, assets, drawnVars, surface,
                 redraw, waiting, configures, callbacks, count>>

(***************************************************************************)
(* The compositor, and the handlers of what it sends.                      *)
(***************************************************************************)
\* The compositor asks for a size of its own accord, as when an output changes.
Reconfigures ==
  /\ surface.mapped /\ Odd
  /\ configures' = Append(configures, IF surface.contextual THEN "full" ELSE "status")
  /\ UNCHANGED <<phase, contentVars, loaderVars, assets, drawnVars, surface, redraw, waiting,
                 callbacks>>

Releases ==
  /\ \E i \in DOMAIN buffers :
       /\ buffers[i].busy /\ i # attached
       /\ buffers' = [buffers EXCEPT ![i].busy = FALSE]
  /\ UNCHANGED <<phase, contentVars, loaderVars, assets, picture, attached, shown, surface, redraw,
                 waiting, configures, callbacks, count>>

Configured ==
  /\ phase = "dispatch" /\ configures # <<>>
  /\ configures' = Tail(configures)
  /\ surface' = [surface EXCEPT !.size = Head(configures), !.configured = TRUE, !.asked = FALSE]
  /\ ClearBuffers
  /\ redraw' = "Full"
  /\ UNCHANGED <<phase, contentVars, loaderVars, assets, picture, shown, waiting, callbacks, count>>

\* CompositorHandler::frame: also for a callback of an earlier mapping.
FrameCalls ==
  /\ phase = "dispatch" /\ callbacks > 0
  /\ callbacks' = callbacks - 1
  /\ waiting' = FALSE
  /\ UNCHANGED <<phase, contentVars, loaderVars, assets, drawnVars, surface, redraw, configures, count>>

Rescales ==
  /\ phase = "dispatch" /\ Odd
  /\ ClearBuffers
  /\ redraw' = "Full"
  /\ UNCHANGED <<phase, contentVars, loaderVars, assets, picture, shown, surface, waiting, configures,
                 callbacks>>

Dispatched ==
  /\ phase = "dispatch"
  /\ phase' = "events"
  /\ UNCHANGED <<contentVars, loaderVars, assets, drawnVars, surface, redraw, waiting, configures,
                 callbacks, count>>

(***************************************************************************)
(* The tick.                                                               *)
(***************************************************************************)
Happens ==
  /\ phase = "events"
  /\ count.ui < MaxUiEvents
  /\ count' = [count EXCEPT !.ui = @ + 1]
  /\ redraw' = "Full"
  /\ UNCHANGED <<phase, assets, drawnVars, surface, waiting, configures, callbacks>>

\* A scene arrives or is replaced, or its images are refreshed; or it is dismissed,
\* restarted or out of time.
SceneChanges ==
  /\ Happens
  /\ \E next \in {NoScene, Reading, [kind |-> "Rewards", version |-> revision + 1]} :
       /\ next = NoScene => scene # NoScene
       /\ scene' = next
       /\ Request(next)
  /\ UNCHANGED <<enabled, hud, focus>>

\* overlay show and hide.
OverlayToggles ==
  /\ Happens
  /\ enabled' = ~enabled
  /\ UNCHANGED <<scene, hud, focus, loaderVars>>

\* hud show and hide, and the game that starts.
HudChanges ==
  /\ Happens
  /\ \/ hud' \in {"Shown", "Hidden"}
     \/ hud = "Startup" /\ hud' = "Hidden"
  /\ UNCHANGED <<scene, enabled, focus, loaderVars>>

\* update_focus.
FocusChanges ==
  /\ Happens
  /\ focus' = ~focus
  /\ UNCHANGED <<scene, enabled, hud, loaderVars>>

StillValid(bs) == bs

\* What an installation of images does to the cache keys of the buffers.
Invalidated(bs) == [i \in DOMAIN bs |-> [bs[i] EXCEPT !.key = Unkeyed]]

ImagesReady == results # Nothing /\ results.rev = revision

\* Loader::poll with its flush, and the installation of images; then animate_loading.
Prepare ==
  /\ phase = "events" /\ phase' = "sync"
  /\ results' = Nothing
  /\ IF queue = Nothing THEN queue' = unfit /\ unfit' = Nothing ELSE UNCHANGED <<queue, unfit>>
  /\ IF ImagesReady
       THEN assets' = results.assets /\ picture' = Blank /\ buffers' = Invalidated(buffers)
       ELSE UNCHANGED <<assets, picture, buffers>>
  /\ waiting' = (waiting /\ LoadingActive)
  /\ \E due \in BOOLEAN :
       redraw' = IF ImagesReady THEN "Full"
                 ELSE IF LoadingActive /\ ~waiting /\ due /\ redraw = "None" THEN "Loading"
                 ELSE redraw
  /\ UNCHANGED <<contentVars, revision, loading, surface, configures, callbacks, attached, shown,
                 count>>

Idle == UNCHANGED <<drawnVars, surface, redraw, waiting, configures, callbacks, count>>

\* sync_geometry, and the commit that asks for a size.
AskSize(contextual) ==
  /\ configures' = Append(configures, IF contextual THEN "full" ELSE "status")
  /\ UNCHANGED <<picture, shown, redraw, waiting, callbacks, count>>

UnmappedStillAsked == [surface EXCEPT !.configured = FALSE, !.asked = TRUE, !.mapped = FALSE]
Unmapped == [surface EXCEPT !.configured = FALSE, !.asked = FALSE, !.mapped = FALSE]

Unmap ==
  /\ surface' = Unmapped
  /\ ClearBuffers
  /\ shown' = Blank
  /\ waiting' = FALSE
  /\ redraw' = "Full"
  /\ UNCHANGED <<picture, configures, callbacks, count>>

Free == {i \in DOMAIN buffers : ~buffers[i].busy}
Least(S) == CHOOSE i \in S : \A j \in S : i <= j

\* Renderer::prepare_frame: a frame is rendered anew only for another scene or size.
Rendered(key) ==
  IF ~SceneShown \/ (picture.scene = key.scene /\ picture.size = key.size) THEN picture
  ELSE [scene |-> key.scene, size |-> key.size, assets |-> assets]

\* draw, onto buffer i.
Paint(i) ==
  LET key == IF SceneShown THEN [scene |-> scene, size |-> surface.size] ELSE Unkeyed
      cached == Rendered(key)
      old == IF i \in DOMAIN buffers THEN buffers[i]
             ELSE [key |-> Unkeyed, pixels |-> Blank, busy |-> FALSE]
      animated == SceneShown /\ scene.kind = "Reading"
      partial == animated /\ surface.mapped /\ redraw = "Loading" /\ old.key = key
      new == [key |-> key, busy |-> TRUE,
              pixels |-> IF partial THEN old.pixels ELSE IF SceneShown THEN cached ELSE Blank]
  IN  /\ picture' = cached
      /\ buffers' = [j \in DOMAIN buffers \cup {i} |-> IF j = i THEN new ELSE buffers[j]]
      /\ attached' = i
      /\ shown' = new.pixels
      /\ surface' = [surface EXCEPT !.mapped = TRUE]
      /\ redraw' = "None"
      /\ waiting' = (waiting \/ animated)
      /\ callbacks' = callbacks + (IF animated /\ ~waiting THEN 1 ELSE 0)
      /\ UNCHANGED <<configures, count>>

\* A frame that cannot be rendered, and a screen that holds all the buffers.
Draw ==
  \/ SceneShown /\ Odd
     /\ UNCHANGED <<drawnVars, surface, redraw, waiting, configures, callbacks>>
  \/ Free # {} /\ Paint(Least(Free))
  \/ Free = {} /\ Len(buffers) < Buffers /\ Paint(Len(buffers) + 1)
  \/ Free = {} /\ Len(buffers) = Buffers /\ Idle

\* contextual_surface_required.
Contextual ==
  enabled /\ (scene # NoScene \/ (surface.contextual /\ ~StatusVisible))

Wanted == (focus /\ (StatusVisible \/ (enabled /\ scene # NoScene))) \/ surface.contextual

\* sync_surface.
Sync ==
  /\ phase = "sync" /\ phase' = "dispatch"
  /\ \/ /\ Contextual # surface.contextual
        /\ surface' = [surface EXCEPT !.contextual = Contextual, !.configured = FALSE, !.asked = TRUE]
        /\ ClearBuffers
        /\ AskSize(Contextual)
     \/ /\ Contextual = surface.contextual /\ ~surface.configured
        /\ IF Wanted /\ ~surface.asked
             THEN /\ surface' = [surface EXCEPT !.asked = TRUE]
                  /\ UNCHANGED bufferVars
                  /\ AskSize(surface.contextual)
             ELSE Idle
     \/ /\ Contextual = surface.contextual /\ surface.configured
        /\ IF Wanted
             THEN IF redraw # "None" \/ ~surface.mapped THEN Draw ELSE Idle
             ELSE IF surface.mapped THEN Unmap ELSE Idle
  /\ UNCHANGED <<contentVars, loaderVars, assets>>

OverlayInit ==
  /\ phase = "dispatch"
  /\ scene = NoScene /\ enabled = TRUE /\ hud \in {"Startup", "Hidden"} /\ focus = FALSE
  /\ revision = 0 /\ unfit = Nothing /\ queue = Nothing /\ loading = Nothing
  /\ results = Nothing /\ assets = 0
  /\ picture = Blank /\ buffers = <<>> /\ attached = 0 /\ shown = Blank
  /\ surface = [configured |-> FALSE, asked |-> TRUE, mapped |-> FALSE, contextual |-> FALSE,
                size |-> "status"]
  /\ redraw = "Full" /\ waiting = FALSE
  /\ configures = <<"status">> /\ callbacks = 0
  /\ count = [ui |-> 0, odd |-> 0]

Tick ==
  \/ Dispatched
  \/ SceneChanges
  \/ OverlayToggles
  \/ HudChanges
  \/ FocusChanges
  \/ Prepare
  \/ Sync

OverlayNext ==
  \/ Tick
  \/ LoaderTakes
  \/ LoaderEnds
  \/ Reconfigures
  \/ Releases
  \/ Configured
  \/ FrameCalls
  \/ Rescales

\* The event loop turns, the worker works, and the compositor sends what it owes; only
\* frame callbacks may be withheld, from a surface nobody sees.
OverlayFairness ==
  /\ WF_overlayVars(Dispatched) /\ WF_overlayVars(Prepare) /\ WF_overlayVars(Sync)
  /\ WF_overlayVars(LoaderTakes) /\ WF_overlayVars(LoaderEnds)
  /\ SF_overlayVars(Configured) /\ WF_overlayVars(Releases)

OverlaySpec == OverlayInit /\ [][OverlayNext]_overlayVars /\ OverlayFairness

(***************************************************************************)
(* Properties.                                                             *)
(***************************************************************************)
\* Every variable keeps its type.
OverlayTypeOK ==
  /\ phase \in {"dispatch", "events", "sync"}
  /\ scene.kind \in {"none", "Reading", "Rewards"}
  /\ hud \in {"Startup", "Shown", "Hidden"}
  /\ redraw \in {"None", "Loading", "Full"}
  /\ {enabled, focus, waiting} \subseteq BOOLEAN
  /\ Len(buffers) <= Buffers
  /\ \A r \in {unfit, queue, loading, results} : r.rev <= revision
  /\ assets <= revision
  /\ surface.configured => ~surface.asked

\* What the present scene looks like at the present size with the images installed.
Present == IF SceneShown THEN [scene |-> scene, size |-> surface.size, assets |-> assets] ELSE Blank

\* A mapped surface without a redraw ahead shows the present scene with the present images:
\* an animation never goes on over the pixels of another frame (draw, install_scene_assets).
NoStalePixels ==
  (phase = "dispatch" /\ surface.mapped /\ surface.configured /\ redraw = "None") => shown = Present

\* After the last event the screen shows what is wanted with its own images, or nothing,
\* and only an animation is drawn any more (sync_surface, Loader, unmap).
Settled ==
  /\ surface.mapped = Wanted
  /\ Wanted => /\ shown = Present
               /\ assets = Loads(scene)
               /\ redraw = "None" \/ LoadingActive
=============================================================================
