---------------------------- MODULE WorkletPage -----------------------------
(***************************************************************************)
(* The pages of the browser demo, basic.html with OlafProcessor and        *)
(* resample.html with ResampleProcessor, which have one button: it starts  *)
(* or stops the microphone.  Starting goes through two promises, that of   *)
(* the microphone and that of the module of the worklet; each handler uses *)
(* the page's variable audioContext as it finds it by then.                *)
(*                                                                         *)
(* A start is named by its number, and so are the microphone stream, the   *)
(* audio context and the node it makes.  Each context has an audio thread, *)
(* where the processor of a node waits for two promises of its own         *)
(* (OlafProcessor is the detail of this) and then posts messages to a      *)
(* port.  They wait there for the page, which handles one event at a time. *)
(***************************************************************************)
EXTENDS Integers, Sequences

CONSTANTS
  MaxStarts,    \* bound: clicks that start
  MaxMessages,  \* bound: messages that wait at a port
  MaxFrames,    \* bound: no matches come with that many frames asked for
  None

ASSUME PageAssumption ==
  /\ {MaxStarts, MaxMessages, MaxFrames} \subseteq Nat
  /\ None \notin Nat

Starts == 1 .. MaxStarts

\* found: query_time_start is not zero.  offset: the times differ.
Messages == [from : Starts, found : BOOLEAN, offset : BOOLEAN]

VARIABLES
  page,          \* basic or resample
  patient,       \* clicks only come when no start is under way
  phase,         \* per start: how far the page is with it
  live,          \* per start: its microphone is on
  context,       \* per start: the state of its audio context
  loaded,        \* per start: the module is in the scope of its context
  node,          \* per start: the context its node was made in, or None
  hears,         \* per start: the microphone is connected to the node
  handler,       \* per start: the port of the node has an onmessage
  audioContext,  \* and microphoneStream: that of a start, or None
  overwritten,   \* history: starts whose context was replaced in audioContext
  src,           \* per node: this.src of its processor, none before the constructor
  olaf,          \* per node: this.olaf of its processor
  dead,          \* per node: process() threw an exception
  processor,     \* per context: the variable `processor` of the module
  port,          \* per node: the messages that wait
  checked,       \* the check box "match found"
  offset,        \* reference_query_time_delta is not zero
  frames         \* calls of showEstimatedTime asked for

chosen == <<page, patient>>
pageVars == <<phase, live, hears, handler, audioContext, overwritten>>
scopeVars == <<loaded, node, processor>>
nodeVars == <<src, olaf, dead>>
display == <<checked, offset, frames>>
vars == <<chosen, pageVars, context, scopeVars, nodeVars, port, display>>

Init ==
  /\ page \in {"basic", "resample"}
  /\ patient \in BOOLEAN
  /\ phase = [s \in Starts |-> "none"]
  /\ live = [s \in Starts |-> FALSE]
  /\ context = [s \in Starts |-> "none"]
  /\ loaded = [s \in Starts |-> FALSE]
  /\ node = [s \in Starts |-> None]
  /\ hears = [s \in Starts |-> FALSE]
  /\ handler = [s \in Starts |-> FALSE]
  /\ audioContext = None
  /\ overwritten = {}
  /\ src = [s \in Starts |-> "none"]
  /\ olaf = [s \in Starts |-> "none"]
  /\ dead = [s \in Starts |-> FALSE]
  /\ processor = [s \in Starts |-> None]
  /\ port = [s \in Starts |-> <<>>]
  /\ checked = FALSE
  /\ offset = FALSE
  /\ frames = 0

-----------------------------------------------------------------------------
(* The button. *)

UnderWay == \E s \in Starts : phase[s] \in {"asking", "loading"}

ClickIsAllowed == patient => ~UnderWay

\* The browser is asked for the microphone.
ClickStarts(s) ==
  /\ audioContext = None
  /\ ClickIsAllowed
  /\ phase[s] = "none"
  /\ \A t \in 1 .. s - 1 : phase[t] # "none"
  /\ phase' = [phase EXCEPT ![s] = "asking"]
  /\ UNCHANGED <<chosen, live, hears, handler, audioContext, overwritten, context, scopeVars, nodeVars, port, display>>

\* Variant of ClickStops: the tracks are left alone.
MutClickStops ==
  /\ audioContext # None
  /\ ClickIsAllowed
  /\ context' = [context EXCEPT ![audioContext] = "closing"]
  /\ audioContext' = None
  /\ UNCHANGED <<chosen, phase, live, hears, handler, overwritten, scopeVars, nodeVars, port, display>>

\* The tracks of the stream are stopped, the context begins to close.
ClickStops ==
  /\ audioContext # None
  /\ ClickIsAllowed
  /\ live' = [live EXCEPT ![audioContext] = FALSE]
  /\ context' = [context EXCEPT ![audioContext] = "closing"]
  /\ audioContext' = None
  /\ UNCHANGED <<chosen, phase, hears, handler, overwritten, scopeVars, nodeVars, port, display>>

-----------------------------------------------------------------------------
(* The promises of a start. *)

MicrophoneIsRefused(s) ==
  /\ phase[s] = "asking"
  /\ phase' = [phase EXCEPT ![s] = "refused"]
  /\ UNCHANGED <<chosen, live, hears, handler, audioContext, overwritten, context, scopeVars, nodeVars, port, display>>

\* The stream is there: a context is made, and told to load the module.  If
\* another start came first its context is forgotten.
MicrophoneIsThere(s) ==
  /\ phase[s] = "asking"
  /\ phase' = [phase EXCEPT ![s] = "loading"]
  /\ live' = [live EXCEPT ![s] = TRUE]
  /\ context' = [context EXCEPT ![s] = "open"]
  /\ audioContext' = s
  /\ overwritten' = overwritten \cup ({audioContext} \ {None})
  /\ UNCHANGED <<chosen, hears, handler, scopeVars, nodeVars, port, display>>

\* registerProcessor, in the scope of the context.
ModuleRegisters(s) ==
  /\ phase[s] = "loading"
  /\ ~loaded[s]
  /\ loaded' = [loaded EXCEPT ![s] = TRUE]
  /\ UNCHANGED <<chosen, pageVars, context, node, processor, nodeVars, port, display>>

\* No one looks at an error of addModule.
ModuleFails(s) ==
  /\ phase[s] = "loading"
  /\ ~loaded[s]
  /\ phase' = [phase EXCEPT ![s] = "no module"]
  /\ UNCHANGED <<chosen, live, hears, handler, audioContext, overwritten, context, scopeVars, nodeVars, port, display>>

\* Variant of NodeIsMade: the handler is left to someone else.
MutNodeIsMade(s) ==
  /\ phase[s] = "loading"
  /\ loaded[s]
  /\ audioContext = s
  /\ phase' = [phase EXCEPT ![s] = "running"]
  /\ node' = [node EXCEPT ![s] = s]
  /\ hears' = [hears EXCEPT ![s] = TRUE]
  /\ UNCHANGED <<chosen, live, handler, audioContext, overwritten, context, loaded, processor, nodeVars, port, display>>

\* addModule is resolved: a node is made in the context that is in
\* audioContext now, connected to the microphone and given a handler.
NodeIsMade(s) ==
  /\ phase[s] = "loading"
  /\ loaded[s]
  /\ audioContext = s
  /\ phase' = [phase EXCEPT ![s] = "running"]
  /\ node' = [node EXCEPT ![s] = s]
  /\ hears' = [hears EXCEPT ![s] = TRUE]
  /\ handler' = [handler EXCEPT ![s] = TRUE]
  /\ UNCHANGED <<chosen, live, audioContext, overwritten, context, loaded, processor, nodeVars, port, display>>

\* audioContext is null, or a context that has not loaded the module.
NodeIsNotMade(s) ==
  /\ phase[s] = "loading"
  /\ loaded[s]
  /\ audioContext # s
  /\ audioContext # None => ~loaded[audioContext]
  /\ phase' = [phase EXCEPT ![s] = "no node"]
  /\ UNCHANGED <<chosen, live, hears, handler, audioContext, overwritten, context, scopeVars, nodeVars, port, display>>

\* audioContext is that of another start: the node is made there, but cannot
\* be connected to the microphone of this one.
NodeIsNotConnected(s) ==
  /\ phase[s] = "loading"
  /\ loaded[s]
  /\ audioContext \notin {s, None}
  /\ loaded[audioContext]
  /\ phase' = [phase EXCEPT ![s] = "not connected"]
  /\ node' = [node EXCEPT ![s] = audioContext]
  /\ UNCHANGED <<chosen, live, hears, handler, audioContext, overwritten, context, loaded, processor, nodeVars, port, display>>

-----------------------------------------------------------------------------
(* The audio thread of a context. *)

Renders(s) == node[s] # None /\ context[node[s]] \in {"open", "closing"}

\* The constructor of OlafProcessor asks for the resampler and the module, and
\* sets the variable the callback uses.
OlafConstructor(s) ==
  /\ page = "basic"
  /\ Renders(s)
  /\ src[s] = "none"
  /\ src' = [src EXCEPT ![s] = "pending"]
  /\ olaf' = [olaf EXCEPT ![s] = "pending"]
  /\ processor' = [processor EXCEPT ![node[s]] = s]
  /\ UNCHANGED <<chosen, pageVars, context, loaded, node, dead, port, display>>

\* That of ResampleProcessor asks for the resampler.
ResampleConstructor(s) ==
  /\ page = "resample"
  /\ Renders(s)
  /\ src[s] = "none"
  /\ src' = [src EXCEPT ![s] = "pending"]
  /\ UNCHANGED <<chosen, pageVars, context, scopeVars, olaf, dead, port, display>>

SrcCreated(s) ==
  /\ Renders(s)
  /\ src[s] = "pending"
  /\ src' = [src EXCEPT ![s] = "ready"]
  /\ UNCHANGED <<chosen, pageVars, context, scopeVars, olaf, dead, port, display>>

SrcFails(s) ==
  /\ Renders(s)
  /\ src[s] = "pending"
  /\ src' = [src EXCEPT ![s] = "failed"]
  /\ UNCHANGED <<chosen, pageVars, context, scopeVars, olaf, dead, port, display>>

OlafLoaded(s) ==
  /\ Renders(s)
  /\ olaf[s] = "pending"
  /\ olaf' = [olaf EXCEPT ![s] = "ready"]
  /\ UNCHANGED <<chosen, pageVars, context, scopeVars, src, dead, port, display>>

Ready(s) == src[s] = "ready" /\ (page = "basic" => olaf[s] = "ready")

MayProcess(s) == Renders(s) /\ Ready(s) /\ ~dead[s]

\* inputs[0][0] is not there: always so for a node that is not connected.
ProcessWithoutInput(s) ==
  /\ MayProcess(s)
  /\ dead' = [dead EXCEPT ![s] = TRUE]
  /\ UNCHANGED <<chosen, pageVars, context, scopeVars, src, olaf, port, display>>

Post(to, m) ==
  /\ Len(port[to]) < MaxMessages
  /\ port' = [port EXCEPT ![to] = Append(@, m)]

\* Variant of MatchIsPosted: any node of the context reports, connected or not.
MutMatchIsPosted(s, found, zero) ==
  /\ page = "basic"
  /\ MayProcess(s)
  /\ frames < MaxFrames
  /\ Post(processor[node[s]], [from |-> s, found |-> found, offset |-> found /\ ~zero])
  /\ UNCHANGED <<chosen, pageVars, context, scopeVars, nodeVars, display>>

\* process() of OlafProcessor: in a block of audio the C code comes to a
\* result, for which it calls olaf_fp_matcher_callback.  The result is posted to
\* the port of the processor that was constructed last in this context.
MatchIsPosted(s, found, zero) ==
  /\ page = "basic"
  /\ MayProcess(s)
  /\ hears[s]
  /\ frames < MaxFrames
  /\ Post(processor[node[s]], [from |-> s, found |-> found, offset |-> found /\ ~zero])
  /\ UNCHANGED <<chosen, pageVars, context, scopeVars, nodeVars, display>>

\* process() of ResampleProcessor: the ratio of the lengths is posted.
RatioIsPosted(s) ==
  /\ page = "resample"
  /\ MayProcess(s)
  /\ hears[s]
  /\ Post(s, [from |-> s, found |-> FALSE, offset |-> FALSE])
  /\ UNCHANGED <<chosen, pageVars, context, scopeVars, nodeVars, display>>

ContextCloses(s) ==
  /\ context[s] = "closing"
  /\ context' = [context EXCEPT ![s] = "closed"]
  /\ UNCHANGED <<chosen, pageVars, scopeVars, nodeVars, port, display>>

-----------------------------------------------------------------------------
(* Messages, and the display of basic.html. *)

\* updateMatch, with the call of showEstimatedTime when the state flips.
UpdateMatch(m) ==
  /\ offset' = m.offset
  /\ checked' = m.found
  /\ frames' = IF m.found /\ ~checked /\ m.offset THEN frames + 1 ELSE frames

\* onmessage.  Without an audio context it ends with an exception before
\* anything is shown; resample.html only logs.
Handle(s) ==
  /\ handler[s]
  /\ port[s] # <<>>
  /\ port' = [port EXCEPT ![s] = Tail(@)]
  /\ IF page = "basic" /\ audioContext # None
     THEN UpdateMatch(Head(port[s]))
     ELSE UNCHANGED display
  /\ UNCHANGED <<chosen, pageVars, context, scopeVars, nodeVars>>

\* Variant of ShowEstimatedTime: the next frame is asked for first.
MutShowEstimatedTime ==
  /\ frames > 0
  /\ frames' = IF offset THEN frames ELSE frames - 1
  /\ UNCHANGED <<chosen, pageVars, context, scopeVars, nodeVars, port, checked, offset>>

\* Variant of ShowEstimatedTime: a frame nobody asked for.
FrameUnasked ==
  /\ frames' = IF offset /\ audioContext # None THEN frames ELSE frames - 1
  /\ UNCHANGED <<chosen, pageVars, context, scopeVars, nodeVars, port, checked, offset>>

\* A frame: another one is asked for as long as there is an offset to show.
\* Without an audio context an exception comes first.
ShowEstimatedTime ==
  /\ frames > 0
  /\ frames' = IF offset /\ audioContext # None THEN frames ELSE frames - 1
  /\ UNCHANGED <<chosen, pageVars, context, scopeVars, nodeVars, port, checked, offset>>

-----------------------------------------------------------------------------

Promises(s) ==
  \/ MicrophoneIsRefused(s) \/ MicrophoneIsThere(s)
  \/ ModuleRegisters(s) \/ ModuleFails(s)
  \/ NodeIsMade(s) \/ NodeIsNotMade(s) \/ NodeIsNotConnected(s)

Next ==
  \/ ClickStops
  \/ ShowEstimatedTime
  \/ \E s \in Starts :
       \/ ClickStarts(s)
       \/ Promises(s)
       \/ OlafConstructor(s) \/ ResampleConstructor(s)
       \/ SrcCreated(s) \/ SrcFails(s) \/ OlafLoaded(s)
       \/ ProcessWithoutInput(s)
       \/ \E found, zero \in BOOLEAN : MatchIsPosted(s, found, zero)
       \/ RatioIsPosted(s)
       \/ ContextCloses(s)
       \/ Handle(s)

\* Promises are settled, frames are drawn and messages delivered.  Nothing is
\* said about the audio, nor about the one who clicks.
Fairness ==
  /\ WF_vars(ShowEstimatedTime)
  /\ \A s \in Starts : WF_vars(Promises(s)) /\ WF_vars(Handle(s)) /\ WF_vars(ContextCloses(s))

Spec == Init /\ [][Next]_vars /\ Fairness

-----------------------------------------------------------------------------
(* Types. *)

TypeOK ==
  /\ page \in {"basic", "resample"}
  /\ patient \in BOOLEAN
  /\ phase \in [Starts -> {"none", "asking", "refused", "loading", "no module",
                           "running", "no node", "not connected"}]
  /\ {live, loaded, hears, handler, dead} \subseteq [Starts -> BOOLEAN]
  /\ context \in [Starts -> {"none", "open", "closing", "closed"}]
  /\ {node, processor} \subseteq [Starts -> Starts \cup {None}]
  /\ audioContext \in Starts \cup {None}
  /\ overwritten \subseteq Starts
  /\ src \in [Starts -> {"none", "pending", "ready", "failed"}]
  /\ olaf \in [Starts -> {"none", "pending", "ready"}]
  /\ port \in [Starts -> Seq(Messages)]
  /\ {checked, offset} \subseteq BOOLEAN
  /\ frames \in Nat

-----------------------------------------------------------------------------
(* Properties *)

\* A microphone is only on while its context is the one that the button will
\* stop; but for contexts that were replaced, in audioContext, by those of a
\* start that was clicked before the first one had its microphone
\* (basic.html:82).  Those stay on, and open, for good.
MicrophoneIsHeld ==
  \A s \in Starts :
    /\ live[s] <=> (audioContext = s \/ s \in overwritten)
    /\ live[s] <=> context[s] = "open"

\* What the page shows as a match of a node was found in the sound of its own
\* microphone, although the callback posts to whichever processor was
\* constructed last (olaf_processor_edit.js:58).
ShownMatchesAreOwn ==
  \A s \in Starts : handler[s] => \A i \in DOMAIN port[s] : port[s][i].from = s

\* Who waits until a start is over never has a context that is forgotten, nor
\* a match that is posted to a node that does not listen.
PatienceIsEnough ==
  patient =>
    /\ overwritten = {}
    /\ \A s \in Starts : port[s] # <<>> => handler[s]
    /\ \A s \in Starts : phase[s] \notin {"no node", "not connected"}

\* After a stop the display is not updated frame by frame for ever: the call
\* that finds no audio context is the last one (basic.html:65).
ClockStops == audioContext = None ~> (frames = 0 \/ audioContext # None)

-----------------------------------------------------------------------------
(* The inductive invariant. *)

\* How far a start is, and what there is of it by then.  A node may be made in
\* the context of another start; then nothing is connected to it.
StartInv ==
  \A s \in Starts :
    /\ context[s] = "none" <=> phase[s] \in {"none", "asking", "refused"}
    /\ handler[s] <=> phase[s] = "running"
    /\ hears[s] <=> phase[s] = "running"
    /\ node[s] # None <=> phase[s] \in {"running", "not connected"}
    /\ phase[s] = "running" => node[s] = s
    /\ s \in overwritten => audioContext # s

\* The callback finds a processor of its own context.
ProcessorInv ==
  \A s \in Starts :
    /\ src[s] # "none" => node[s] # None /\ (page = "basic" => processor[node[s]] # None)
    /\ processor[s] # None => node[processor[s]] = s

\* A message comes from the node whose context is that of the port.
PortInv ==
  \A s \in Starts : \A i \in DOMAIN port[s] :
    hears[port[s][i].from] /\ node[s] = port[s][i].from

\* One start at a time, which finds audioContext as it left it.
PatienceInv ==
  patient =>
    /\ overwritten = {}
    /\ \A s \in Starts :
         /\ phase[s] = "asking" => audioContext = None
         /\ phase[s] = "loading" => audioContext = s
         /\ phase[s] \notin {"no node", "not connected"}
    /\ \A s, t \in Starts :
         {phase[s], phase[t]} \subseteq {"asking", "loading"} => s = t

IInv == TypeOK /\ MicrophoneIsHeld /\ StartInv /\ ProcessorInv /\ PortInv /\ PatienceInv

=============================================================================
