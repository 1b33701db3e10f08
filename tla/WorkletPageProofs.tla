------------------------- MODULE WorkletPageProofs --------------------------
(***************************************************************************)
(* Proofs about WorkletPage, for any number of starts and messages.        *)
(***************************************************************************)
EXTENDS WorkletPage, TLAPS

\* None is not the number of a start.
LEMMA NoneIsNoStart == None \notin Starts /\ Starts \subseteq Nat
BY PageAssumption DEF Starts

\* The parts of TypeOK, one membership each.
LEMMA Types ==
  ASSUME IInv
  PROVE  /\ page \in {"basic", "resample"} /\ patient \in BOOLEAN
         /\ phase \in [Starts -> {"none", "asking", "refused", "loading", "no module",
                                  "running", "no node", "not connected"}]
         /\ live \in [Starts -> BOOLEAN] /\ loaded \in [Starts -> BOOLEAN]
         /\ hears \in [Starts -> BOOLEAN] /\ handler \in [Starts -> BOOLEAN]
         /\ dead \in [Starts -> BOOLEAN]
         /\ context \in [Starts -> {"none", "open", "closing", "closed"}]
         /\ node \in [Starts -> Starts \cup {None}] /\ processor \in [Starts -> Starts \cup {None}]
         /\ audioContext \in Starts \cup {None} /\ overwritten \subseteq Starts
         /\ src \in [Starts -> {"none", "pending", "ready", "failed"}]
         /\ olaf \in [Starts -> {"none", "pending", "ready"}]
         /\ port \in [Starts -> Seq(Messages)]
         /\ checked \in BOOLEAN /\ offset \in BOOLEAN /\ frames \in Nat
BY DEF IInv, TypeOK

\* What a step that leaves the variables of a part of the invariant alone keeps.
LEMMA HeldFrame ==
  ASSUME IInv, UNCHANGED <<live, context, audioContext, overwritten>>
  PROVE  MicrophoneIsHeld'
BY DEF IInv, MicrophoneIsHeld

LEMMA StartFrame ==
  ASSUME IInv, UNCHANGED <<context, phase, handler, hears, node, overwritten, audioContext>>
  PROVE  StartInv'
BY DEF IInv, StartInv

LEMMA ProcessorFrame ==
  ASSUME IInv, UNCHANGED <<page, src, node, processor>>
  PROVE  ProcessorInv'
BY DEF IInv, ProcessorInv

LEMMA PortFrame ==
  ASSUME IInv, UNCHANGED <<port, hears, node>>
  PROVE  PortInv'
BY DEF IInv, PortInv

LEMMA PatienceFrame ==
  ASSUME IInv, UNCHANGED <<patient, overwritten, phase, audioContext>>
  PROVE  PatienceInv'
BY DEF IInv, PatienceInv

\* A start that goes on, with or without a context as before, makes no node.
LEMMA StartStep ==
  ASSUME IInv, NEW s \in Starts, NEW p, phase' = [phase EXCEPT ![s] = p],
         UNCHANGED <<context, handler, hears, node, overwritten, audioContext>>,
         phase[s] \notin {"running", "not connected"}, p \notin {"running", "not connected"},
         p \in {"none", "asking", "refused"} <=> phase[s] \in {"none", "asking", "refused"}
  PROVE  StartInv'
<1>1. \A t \in Starts : phase'[t] = IF t = s THEN p ELSE phase[t]
  BY Types
<1>2. \A t \in Starts : /\ phase'[t] \in {"none", "asking", "refused"} <=> phase[t] \in {"none", "asking", "refused"}
                        /\ phase'[t] = "running" <=> phase[t] = "running"
                        /\ phase'[t] = "not connected" <=> phase[t] = "not connected"
  BY <1>1
<1>3. StartInv
  BY DEF IInv
<1>4. ASSUME NEW t \in Starts
      PROVE  /\ context'[t] = "none" <=> phase'[t] \in {"none", "asking", "refused"}
             /\ handler'[t] <=> phase'[t] = "running"
             /\ hears'[t] <=> phase'[t] = "running"
             /\ node'[t] # None <=> phase'[t] \in {"running", "not connected"}
             /\ phase'[t] = "running" => node'[t] = t
             /\ t \in overwritten' => audioContext' # t
  BY <1>2, <1>3 DEF StartInv
<1>5. QED
  BY <1>4 DEF StartInv

\* A start that goes on, but not to one of the ends that patience avoids.
LEMMA PatienceStep ==
  ASSUME IInv, NEW s \in Starts, NEW p, phase' = [phase EXCEPT ![s] = p],
         UNCHANGED <<patient, audioContext, overwritten>>,
         p \notin {"asking", "loading", "no node", "not connected"}
  PROVE  PatienceInv'
<1>1. \A t \in Starts : phase'[t] = IF t = s THEN p ELSE phase[t]
  BY Types
<1>2. PatienceInv
  BY DEF IInv
<1>3. ASSUME patient, NEW t \in Starts
      PROVE  /\ phase'[t] = "asking" => audioContext' = None
             /\ phase'[t] = "loading" => audioContext' = t
             /\ phase'[t] \notin {"no node", "not connected"}
  <2>1. CASE t = s
    BY <1>1, <2>1
  <2>2. CASE t # s
    BY <1>1, <1>2, <1>3, <2>2 DEF PatienceInv
  <2>3. QED
    BY <2>1, <2>2
<1>4. ASSUME patient, NEW t \in Starts, NEW u \in Starts,
             {phase'[t], phase'[u]} \subseteq {"asking", "loading"}
      PROVE  t = u
  <2>1. t # s /\ u # s
    BY <1>1, <1>4
  <2>2. {phase[t], phase[u]} \subseteq {"asking", "loading"}
    BY <1>1, <1>4, <2>1
  <2>3. QED
    BY <1>2, <1>4, <2>2 DEF PatienceInv
<1>5. patient => overwritten' = {}
  BY <1>2 DEF PatienceInv
<1>6. QED
  BY <1>3, <1>4, <1>5 DEF PatienceInv

\* The messages that wait name starts.
LEMMA MessagesAreTyped ==
  ASSUME IInv, NEW t \in Starts, NEW n \in DOMAIN port[t]
  PROVE  port[t][n] \in Messages /\ port[t][n].from \in Starts
<1>1. port[t] \in Seq(Messages)
  BY Types
<1>2. port[t][n] \in Messages
  BY <1>1
<1>3. QED
  BY <1>2 DEF Messages

\* A message that is posted stays in the types.
LEMMA PostType ==
  ASSUME IInv, NEW to \in Starts, NEW m \in Messages, Post(to, m)
  PROVE  port' \in [Starts -> Seq(Messages)]
<1>1. port[to] \in Seq(Messages)
  BY Types
<1>2. Append(port[to], m) \in Seq(Messages)
  BY <1>1
<1>3. QED
  BY <1>2, Types DEF Post

\* It comes from the node whose context is that of the port.
LEMMA PostKeepsPorts ==
  ASSUME IInv, NEW to \in Starts, NEW m \in Messages, Post(to, m), UNCHANGED <<hears, node>>,
         hears[m.from], node[to] = m.from
  PROVE  PortInv'
<1>1. port[to] \in Seq(Messages) /\ port' = [port EXCEPT ![to] = Append(port[to], m)]
  BY Types DEF Post
<1>2. \A t \in Starts : port'[t] = IF t = to THEN Append(port[to], m) ELSE port[t]
  BY <1>1, Types
<1>3. \A n \in DOMAIN Append(port[to], m) :
        \/ Append(port[to], m)[n] = m
        \/ n \in DOMAIN port[to] /\ Append(port[to], m)[n] = port[to][n]
  BY <1>1
<1>4. ASSUME NEW t \in Starts, NEW n \in DOMAIN port'[t]
      PROVE  hears[port'[t][n].from] /\ node[t] = port'[t][n].from
  <2>1. CASE t = to /\ port'[t][n] = m
    BY <2>1
  <2>2. CASE n \in DOMAIN port[t] /\ port'[t][n] = port[t][n]
    BY <2>2 DEF IInv, PortInv
  <2>3. QED
    BY <1>2, <1>3, <1>4, <2>1, <2>2
<1>5. QED
  BY <1>4 DEF PortInv

-----------------------------------------------------------------------------
(* Each action keeps the invariant. *)

LEMMA ClickStartsIInv ==
  ASSUME IInv, NEW s \in Starts, ClickStarts(s)
  PROVE  IInv'
<1> USE DEF ClickStarts, chosen, pageVars, scopeVars, nodeVars, display
<1>1. TypeOK'
  BY Types, NoneIsNoStart DEF TypeOK
<1>2. MicrophoneIsHeld'
  BY HeldFrame
<1>3. StartInv'
  BY StartStep
<1>4. ProcessorInv'
  BY ProcessorFrame
<1>5. PortInv'
  BY PortFrame
<1>6. PatienceInv'
  <2>1. \A t \in Starts : phase'[t] = IF t = s THEN "asking" ELSE phase[t]
    BY Types
  <2>2. patient => \A t \in Starts : phase[t] \notin {"asking", "loading"}
    BY DEF ClickIsAllowed, UnderWay
  <2>3. PatienceInv /\ audioContext = None /\ UNCHANGED <<patient, audioContext, overwritten>>
    BY DEF IInv
  <2> HIDE DEF ClickStarts
  <2>4. QED
    BY <2>1, <2>2, <2>3 DEF PatienceInv
<1>7. QED
  BY <1>1, <1>2, <1>3, <1>4, <1>5, <1>6 DEF IInv

LEMMA ClickStopsIInv ==
  ASSUME IInv, ClickStops
  PROVE  IInv'
<1> USE DEF ClickStops, chosen, pageVars, scopeVars, nodeVars, display
<1>1. TypeOK'
  BY Types, NoneIsNoStart DEF TypeOK
<1>2. MicrophoneIsHeld'
  <2>1. audioContext \in Starts /\ audioContext \notin overwritten
    BY Types DEF IInv, StartInv
  <2>2. \A t \in Starts : /\ live'[t] = IF t = audioContext THEN FALSE ELSE live[t]
                          /\ context'[t] = IF t = audioContext THEN "closing" ELSE context[t]
    BY Types
  <2>3. audioContext' = None /\ overwritten' = overwritten /\ None \notin Starts
    BY NoneIsNoStart
  <2>4. MicrophoneIsHeld
    BY DEF IInv
  <2> HIDE DEF ClickStops
  <2>5. QED
    BY <2>1, <2>2, <2>3, <2>4 DEF MicrophoneIsHeld
<1>3. StartInv'
  <2>1. audioContext \in Starts /\ context[audioContext] = "open"
    BY Types DEF IInv, MicrophoneIsHeld
  <2>2. \A t \in Starts : context'[t] = "none" <=> context[t] = "none"
    BY <2>1, Types
  <2>3. StartInv /\ audioContext' = None /\ None \notin Starts
    BY NoneIsNoStart DEF IInv
  <2>4. UNCHANGED <<phase, handler, hears, node, overwritten>> /\ overwritten \subseteq Starts
    BY Types
  <2> HIDE DEF ClickStops
  <2>5. QED
    BY <2>2, <2>3, <2>4 DEF StartInv
<1>4. ProcessorInv'
  BY ProcessorFrame
<1>5. PortInv'
  BY PortFrame
<1>6. PatienceInv'
  <2>1. patient => \A t \in Starts : phase[t] \notin {"asking", "loading"}
    BY DEF ClickIsAllowed, UnderWay
  <2>2. PatienceInv /\ UNCHANGED <<patient, phase, overwritten>>
    BY DEF IInv
  <2> HIDE DEF ClickStops
  <2>3. QED
    BY <2>1, <2>2 DEF PatienceInv
<1>7. QED
  BY <1>1, <1>2, <1>3, <1>4, <1>5, <1>6 DEF IInv

LEMMA MicrophoneIsRefusedIInv ==
  ASSUME IInv, NEW s \in Starts, MicrophoneIsRefused(s)
  PROVE  IInv'
<1> USE DEF MicrophoneIsRefused, chosen, pageVars, scopeVars, nodeVars, display
<1>1. TypeOK'
  BY Types, NoneIsNoStart DEF TypeOK
<1>2. MicrophoneIsHeld'
  BY HeldFrame
<1>3. StartInv'
  BY StartStep
<1>4. ProcessorInv'
  BY ProcessorFrame
<1>5. PortInv'
  BY PortFrame
<1>6. PatienceInv'
  BY PatienceStep
<1>7. QED
  BY <1>1, <1>2, <1>3, <1>4, <1>5, <1>6 DEF IInv

LEMMA MicrophoneIsThereIInv ==
  ASSUME IInv, NEW s \in Starts, MicrophoneIsThere(s)
  PROVE  IInv'
<1> USE DEF MicrophoneIsThere, chosen, pageVars, scopeVars, nodeVars, display
<1>1. TypeOK'
  BY Types, NoneIsNoStart DEF TypeOK
<1>2. MicrophoneIsHeld'
  <2>1. \A t \in Starts : /\ live'[t] = IF t = s THEN TRUE ELSE live[t]
                          /\ context'[t] = IF t = s THEN "open" ELSE context[t]
    BY Types
  <2>2. context[s] = "none"
    BY DEF IInv, StartInv
  <2>3. ~(audioContext = s \/ s \in overwritten) /\ MicrophoneIsHeld
    BY <2>2 DEF IInv, MicrophoneIsHeld
  <2>4. audioContext' = s /\ overwritten' = overwritten \cup ({audioContext} \ {None}) /\ None \notin Starts
    BY NoneIsNoStart
  <2> HIDE DEF MicrophoneIsThere
  <2>5. \A t \in Starts : t # s => (t \in overwritten' <=> audioContext = t \/ t \in overwritten)
    BY <2>4
  <2>6. QED
    BY <2>1, <2>3, <2>4, <2>5 DEF MicrophoneIsHeld
<1>3. StartInv'
  <2>1. \A t \in Starts : /\ phase'[t] = IF t = s THEN "loading" ELSE phase[t]
                          /\ context'[t] = IF t = s THEN "open" ELSE context[t]
    BY Types
  <2>2. /\ phase[s] = "asking" /\ UNCHANGED <<handler, hears, node>>
        /\ audioContext' = s /\ overwritten' = overwritten \cup ({audioContext} \ {None})
    OBVIOUS
  <2>3. StartInv /\ MicrophoneIsHeld
    BY DEF IInv
  <2>4. ~(audioContext = s \/ s \in overwritten)
    BY <2>2, <2>3 DEF StartInv, MicrophoneIsHeld
  <2> HIDE DEF MicrophoneIsThere
  <2>5. ASSUME NEW t \in Starts
        PROVE  /\ context'[t] = "none" <=> phase'[t] \in {"none", "asking", "refused"}
               /\ handler'[t] <=> phase'[t] = "running"
               /\ hears'[t] <=> phase'[t] = "running"
               /\ node'[t] # None <=> phase'[t] \in {"running", "not connected"}
               /\ phase'[t] = "running" => node'[t] = t
    <3>1. CASE t = s
      BY <2>1, <2>2, <2>3, <3>1 DEF StartInv
    <3>2. CASE t # s
      BY <2>1, <2>2, <2>3, <3>2 DEF StartInv
    <3>3. QED
      BY <3>1, <3>2
  <2>6. s \notin overwritten'
    BY <2>2, <2>4
  <2>7. QED
    BY <2>2, <2>5, <2>6 DEF StartInv
<1>4. ProcessorInv'
  BY ProcessorFrame
<1>5. PortInv'
  BY PortFrame
<1>6. PatienceInv'
  <2>1. \A t \in Starts : phase'[t] = IF t = s THEN "loading" ELSE phase[t]
    BY Types
  <2>2. /\ phase[s] = "asking" /\ patient' = patient /\ audioContext' = s
        /\ overwritten' = overwritten \cup ({audioContext} \ {None})
    OBVIOUS
  <2>3. PatienceInv
    BY DEF IInv
  <2> HIDE DEF MicrophoneIsThere
  <2>4. ASSUME patient
        PROVE  /\ overwritten' = {}
               /\ \A t \in Starts : phase[t] \in {"asking", "loading"} => t = s
               /\ \A t \in Starts : phase[t] \notin {"no node", "not connected"}
    BY <2>2, <2>3, <2>4 DEF PatienceInv
  <2>5. QED
    BY <2>1, <2>2, <2>4 DEF PatienceInv
<1>7. QED
  BY <1>1, <1>2, <1>3, <1>4, <1>5, <1>6 DEF IInv

LEMMA ModuleRegistersIInv ==
  ASSUME IInv, NEW s \in Starts, ModuleRegisters(s)
  PROVE  IInv'
<1> USE DEF ModuleRegisters, chosen, pageVars, scopeVars, nodeVars, display
<1>1. TypeOK'
  BY Types, NoneIsNoStart DEF TypeOK
<1>2. MicrophoneIsHeld'
  BY HeldFrame
<1>3. StartInv'
  BY StartFrame
<1>4. ProcessorInv'
  BY ProcessorFrame
<1>5. PortInv'
  BY PortFrame
<1>6. PatienceInv'
  BY PatienceFrame
<1>7. QED
  BY <1>1, <1>2, <1>3, <1>4, <1>5, <1>6 DEF IInv

LEMMA ModuleFailsIInv ==
  ASSUME IInv, NEW s \in Starts, ModuleFails(s)
  PROVE  IInv'
<1> USE DEF ModuleFails, chosen, pageVars, scopeVars, nodeVars, display
<1>1. TypeOK'
  BY Types, NoneIsNoStart DEF TypeOK
<1>2. MicrophoneIsHeld'
  BY HeldFrame
<1>3. StartInv'
  BY StartStep
<1>4. ProcessorInv'
  BY ProcessorFrame
<1>5. PortInv'
  BY PortFrame
<1>6. PatienceInv'
  BY PatienceStep
<1>7. QED
  BY <1>1, <1>2, <1>3, <1>4, <1>5, <1>6 DEF IInv

LEMMA NodeIsMadeIInv ==
  ASSUME IInv, NEW s \in Starts, NodeIsMade(s)
  PROVE  IInv'
<1> USE DEF NodeIsMade, chosen, pageVars, scopeVars, nodeVars, display
<1>1. TypeOK'
  <2>1. /\ phase' \in [Starts -> {"none", "asking", "refused", "loading", "no module",
                                 "running", "no node", "not connected"}]
        /\ node' \in [Starts -> Starts \cup {None}]
        /\ hears' \in [Starts -> BOOLEAN] /\ handler' \in [Starts -> BOOLEAN]
    BY Types
  <2>2. UNCHANGED <<page, patient, live, loaded, dead, context, processor, audioContext,
                    overwritten, src, olaf, port, checked, offset, frames>>
    OBVIOUS
  <2> HIDE DEF NodeIsMade
  <2>3. QED
    BY <2>1, <2>2, Types DEF TypeOK
<1>2. MicrophoneIsHeld'
  BY HeldFrame
<1>3. StartInv'
  <2>1. \A t \in Starts : /\ phase'[t] = IF t = s THEN "running" ELSE phase[t]
                          /\ node'[t] = IF t = s THEN s ELSE node[t]
                          /\ hears'[t] = IF t = s THEN TRUE ELSE hears[t]
                          /\ handler'[t] = IF t = s THEN TRUE ELSE handler[t]
    BY Types
  <2>2. phase[s] = "loading" /\ UNCHANGED <<context, audioContext, overwritten>> /\ s # None
    BY NoneIsNoStart
  <2>3. StartInv
    BY DEF IInv
  <2> HIDE DEF NodeIsMade
  <2>4. ASSUME NEW t \in Starts
        PROVE  /\ context'[t] = "none" <=> phase'[t] \in {"none", "asking", "refused"}
               /\ handler'[t] <=> phase'[t] = "running"
               /\ hears'[t] <=> phase'[t] = "running"
               /\ node'[t] # None <=> phase'[t] \in {"running", "not connected"}
               /\ phase'[t] = "running" => node'[t] = t
               /\ t \in overwritten' => audioContext' # t
    <3>1. CASE t = s
      BY <2>1, <2>2, <2>3, <3>1 DEF StartInv
    <3>2. CASE t # s
      BY <2>1, <2>2, <2>3, <3>2 DEF StartInv
    <3>3. QED
      BY <3>1, <3>2
  <2>5. QED
    BY <2>4 DEF StartInv
<1>4. ProcessorInv'
  <2>1. \A t \in Starts : /\ phase'[t] = IF t = s THEN "running" ELSE phase[t]
                          /\ node'[t] = IF t = s THEN s ELSE node[t]
                          /\ hears'[t] = IF t = s THEN TRUE ELSE hears[t]
                          /\ handler'[t] = IF t = s THEN TRUE ELSE handler[t]
    BY Types
  <2>2. /\ node[s] = None /\ s # None /\ UNCHANGED <<page, src, processor>>
        /\ processor \in [Starts -> Starts \cup {None}]
    BY NoneIsNoStart, Types DEF IInv, StartInv
  <2>3. ProcessorInv
    BY DEF IInv
  <2> HIDE DEF NodeIsMade
  <2>4. \A t \in Starts : src[t] # "none" => t # s
    BY <2>2, <2>3 DEF ProcessorInv
  <2>5. \A t \in Starts : processor[t] # None => processor[t] \in Starts /\ processor[t] # s
    BY <2>2, <2>3, NoneIsNoStart DEF ProcessorInv
  <2>6. QED
    BY <2>1, <2>2, <2>3, <2>4, <2>5 DEF ProcessorInv
<1>5. PortInv'
  <2>1. \A t \in Starts : /\ phase'[t] = IF t = s THEN "running" ELSE phase[t]
                          /\ node'[t] = IF t = s THEN s ELSE node[t]
                          /\ hears'[t] = IF t = s THEN TRUE ELSE hears[t]
                          /\ handler'[t] = IF t = s THEN TRUE ELSE handler[t]
    BY Types
  <2>2. node[s] = None /\ ~hears[s] /\ port' = port /\ None \notin Starts
    BY NoneIsNoStart DEF IInv, StartInv
  <2>3. \A t \in Starts : \A n \in DOMAIN port[t] : port[t][n].from \in Starts
    BY MessagesAreTyped
  <2>4. PortInv
    BY DEF IInv
  <2> HIDE DEF NodeIsMade
  <2>5. ASSUME NEW t \in Starts, NEW n \in DOMAIN port[t]
        PROVE  hears'[port[t][n].from] /\ node'[t] = port[t][n].from
    <3>1. hears[port[t][n].from] /\ node[t] = port[t][n].from /\ port[t][n].from \in Starts
      BY <2>3, <2>4 DEF PortInv
    <3>2. t # s /\ port[t][n].from # s
      BY <2>2, <3>1
    <3>3. QED
      BY <2>1, <2>2, <3>1, <3>2
  <2>6. QED
    BY <2>2, <2>5 DEF PortInv
<1>6. PatienceInv'
  BY PatienceStep
<1>7. QED
  BY <1>1, <1>2, <1>3, <1>4, <1>5, <1>6 DEF IInv

LEMMA NodeIsNotMadeIInv ==
  ASSUME IInv, NEW s \in Starts, NodeIsNotMade(s)
  PROVE  IInv'
<1> USE DEF NodeIsNotMade, chosen, pageVars, scopeVars, nodeVars, display
<1>1. TypeOK'
  BY Types, NoneIsNoStart DEF TypeOK
<1>2. MicrophoneIsHeld'
  BY HeldFrame
<1>3. StartInv'
  BY StartStep
<1>4. ProcessorInv'
  BY ProcessorFrame
<1>5. PortInv'
  BY PortFrame
<1>6. PatienceInv'
  BY DEF IInv, TypeOK, PatienceInv, ClickIsAllowed, UnderWay, StartInv
<1>7. QED
  BY <1>1, <1>2, <1>3, <1>4, <1>5, <1>6 DEF IInv

LEMMA NodeIsNotConnectedIInv ==
  ASSUME IInv, NEW s \in Starts, NodeIsNotConnected(s)
  PROVE  IInv'
<1> USE DEF NodeIsNotConnected, chosen, pageVars, scopeVars, nodeVars, display
<1>1. TypeOK'
  <2>1. /\ phase' \in [Starts -> {"none", "asking", "refused", "loading", "no module",
                                 "running", "no node", "not connected"}]
        /\ node' \in [Starts -> Starts \cup {None}]
    BY Types
  <2>2. UNCHANGED <<page, patient, live, loaded, hears, handler, dead, context, processor,
                    audioContext, overwritten, src, olaf, port, checked, offset, frames>>
    OBVIOUS
  <2> HIDE DEF NodeIsNotConnected
  <2>3. QED
    BY <2>1, <2>2, Types DEF TypeOK
<1>2. MicrophoneIsHeld'
  BY HeldFrame
<1>3. StartInv'
  <2>1. \A t \in Starts : /\ phase'[t] = IF t = s THEN "not connected" ELSE phase[t]
                          /\ node'[t] = IF t = s THEN audioContext ELSE node[t]
    BY Types
  <2>2. /\ phase[s] = "loading" /\ audioContext # None
        /\ UNCHANGED <<context, hears, handler, audioContext, overwritten>>
    OBVIOUS
  <2>3. StartInv
    BY DEF IInv
  <2> HIDE DEF NodeIsNotConnected
  <2>4. ASSUME NEW t \in Starts
        PROVE  /\ context'[t] = "none" <=> phase'[t] \in {"none", "asking", "refused"}
               /\ handler'[t] <=> phase'[t] = "running"
               /\ hears'[t] <=> phase'[t] = "running"
               /\ node'[t] # None <=> phase'[t] \in {"running", "not connected"}
               /\ phase'[t] = "running" => node'[t] = t
               /\ t \in overwritten' => audioContext' # t
    <3>1. CASE t = s
      BY <2>1, <2>2, <2>3, <3>1 DEF StartInv
    <3>2. CASE t # s
      BY <2>1, <2>2, <2>3, <3>2 DEF StartInv
    <3>3. QED
      BY <3>1, <3>2
  <2>5. QED
    BY <2>4 DEF StartInv
<1>4. ProcessorInv'
  <2>1. \A t \in Starts : /\ phase'[t] = IF t = s THEN "not connected" ELSE phase[t]
                          /\ node'[t] = IF t = s THEN audioContext ELSE node[t]
    BY Types
  <2>2. /\ node[s] = None /\ audioContext # None /\ UNCHANGED <<page, src, processor>>
        /\ processor \in [Starts -> Starts \cup {None}]
    BY NoneIsNoStart, Types DEF IInv, StartInv
  <2>3. ProcessorInv
    BY DEF IInv
  <2> HIDE DEF NodeIsNotConnected
  <2>4. \A t \in Starts : src[t] # "none" => t # s
    BY <2>2, <2>3 DEF ProcessorInv
  <2>5. \A t \in Starts : processor[t] # None => processor[t] \in Starts /\ processor[t] # s
    BY <2>2, <2>3, NoneIsNoStart DEF ProcessorInv
  <2>6. QED
    BY <2>1, <2>2, <2>3, <2>4, <2>5 DEF ProcessorInv
<1>5. PortInv'
  <2>1. \A t \in Starts : /\ phase'[t] = IF t = s THEN "not connected" ELSE phase[t]
                          /\ node'[t] = IF t = s THEN audioContext ELSE node[t]
    BY Types
  <2>2. node[s] = None /\ ~hears[s] /\ UNCHANGED <<port, hears>> /\ None \notin Starts
    BY NoneIsNoStart DEF IInv, StartInv
  <2>3. \A t \in Starts : \A n \in DOMAIN port[t] : port[t][n].from \in Starts
    BY MessagesAreTyped
  <2>4. PortInv
    BY DEF IInv
  <2> HIDE DEF NodeIsNotConnected
  <2>5. ASSUME NEW t \in Starts, NEW n \in DOMAIN port[t]
        PROVE  hears'[port[t][n].from] /\ node'[t] = port[t][n].from
    <3>1. hears[port[t][n].from] /\ node[t] = port[t][n].from /\ port[t][n].from \in Starts
      BY <2>3, <2>4 DEF PortInv
    <3>2. t # s /\ port[t][n].from # s
      BY <2>2, <3>1
    <3>3. QED
      BY <2>1, <2>2, <3>1, <3>2
  <2>6. QED
    BY <2>2, <2>5 DEF PortInv
<1>6. PatienceInv'
  BY DEF IInv, TypeOK, PatienceInv, ClickIsAllowed, UnderWay, StartInv
<1>7. QED
  BY <1>1, <1>2, <1>3, <1>4, <1>5, <1>6 DEF IInv

LEMMA OlafConstructorIInv ==
  ASSUME IInv, NEW s \in Starts, OlafConstructor(s)
  PROVE  IInv'
<1> USE DEF OlafConstructor, chosen, pageVars, scopeVars, nodeVars, display
<1>1. TypeOK'
  <2>1. /\ src' \in [Starts -> {"none", "pending", "ready", "failed"}]
        /\ olaf' \in [Starts -> {"none", "pending", "ready"}]
        /\ processor' \in [Starts -> Starts \cup {None}]
    BY Types
  <2>2. UNCHANGED <<page, patient, phase, live, loaded, hears, handler, dead, context, node,
                    audioContext, overwritten, port, checked, offset, frames>>
    OBVIOUS
  <2> HIDE DEF OlafConstructor
  <2>3. /\ page' \in {"basic", "resample"} /\ patient' \in BOOLEAN /\ overwritten' \subseteq Starts
        /\ {live', loaded', hears', handler', dead'} \subseteq [Starts -> BOOLEAN]
        /\ node' \in [Starts -> Starts \cup {None}] /\ audioContext' \in Starts \cup {None}
        /\ {checked', offset'} \subseteq BOOLEAN /\ frames' \in Nat
    BY <2>2, Types
  <2>4. /\ phase' \in [Starts -> {"none", "asking", "refused", "loading", "no module",
                                  "running", "no node", "not connected"}]
        /\ context' \in [Starts -> {"none", "open", "closing", "closed"}]
        /\ port' \in [Starts -> Seq(Messages)]
    BY <2>2, Types
  <2>5. QED
    BY <2>1, <2>3, <2>4 DEF TypeOK
<1>2. MicrophoneIsHeld'
  BY HeldFrame
<1>3. StartInv'
  BY StartFrame
<1>4. ProcessorInv'
  <2>1. node[s] \in Starts /\ node[s] # None /\ s # None /\ UNCHANGED <<page, node>>
    BY Types, NoneIsNoStart DEF Renders
  <2>2. \A t \in Starts : /\ src'[t] = IF t = s THEN "pending" ELSE src[t]
                          /\ processor'[t] = IF t = node[s] THEN s ELSE processor[t]
    BY <2>1, Types
  <2>3. ProcessorInv /\ \A t \in Starts : node[t] \in Starts \cup {None}
    BY Types DEF IInv
  <2> HIDE DEF OlafConstructor
  <2>4. ASSUME NEW t \in Starts, src'[t] # "none"
        PROVE  node[t] # None /\ (page = "basic" => processor'[node[t]] # None)
    <3>1. node[t] # None /\ (page = "basic" => t = s \/ processor[node[t]] # None)
      BY <2>1, <2>2, <2>3, <2>4 DEF ProcessorInv
    <3>2. node[t] \in Starts
      BY <2>3, <3>1
    <3>3. QED
      BY <2>1, <2>2, <3>1, <3>2
  <2>5. ASSUME NEW t \in Starts, processor'[t] # None
        PROVE  node[processor'[t]] = t
    BY <2>1, <2>2, <2>3, <2>5 DEF ProcessorInv
  <2>6. QED
    BY <2>1, <2>4, <2>5 DEF ProcessorInv
<1>5. PortInv'
  BY PortFrame
<1>6. PatienceInv'
  BY PatienceFrame
<1>7. QED
  BY <1>1, <1>2, <1>3, <1>4, <1>5, <1>6 DEF IInv

LEMMA ResampleConstructorIInv ==
  ASSUME IInv, NEW s \in Starts, ResampleConstructor(s)
  PROVE  IInv'
<1> USE DEF ResampleConstructor, chosen, pageVars, scopeVars, nodeVars, display
<1>1. TypeOK'
  BY Types, NoneIsNoStart DEF TypeOK
<1>2. MicrophoneIsHeld'
  BY HeldFrame
<1>3. StartInv'
  BY StartFrame
<1>4. ProcessorInv'
  <2>1. \A t \in Starts : src'[t] = IF t = s THEN "pending" ELSE src[t]
    BY Types
  <2>2. ProcessorInv /\ UNCHANGED <<page, node, processor>>
    BY DEF IInv
  <2>3. page = "resample" /\ node[s] # None
    BY DEF Renders
  <2> HIDE DEF ResampleConstructor
  <2>4. QED
    BY <2>1, <2>2, <2>3 DEF ProcessorInv
<1>5. PortInv'
  BY PortFrame
<1>6. PatienceInv'
  BY PatienceFrame
<1>7. QED
  BY <1>1, <1>2, <1>3, <1>4, <1>5, <1>6 DEF IInv

LEMMA SrcCreatedIInv ==
  ASSUME IInv, NEW s \in Starts, SrcCreated(s)
  PROVE  IInv'
<1> USE DEF SrcCreated, chosen, pageVars, scopeVars, nodeVars, display
<1>1. TypeOK'
  BY Types, NoneIsNoStart DEF TypeOK
<1>2. MicrophoneIsHeld'
  BY HeldFrame
<1>3. StartInv'
  BY StartFrame
<1>4. ProcessorInv'
  <2>1. \A t \in Starts : src'[t] = IF t = s THEN "ready" ELSE src[t]
    BY Types
  <2>2. ProcessorInv /\ UNCHANGED <<page, node, processor>>
    BY DEF IInv
  <2>3. src[s] = "pending"
    OBVIOUS
  <2> HIDE DEF SrcCreated
  <2>4. \A t \in Starts : src'[t] # "none" => src[t] # "none"
    BY <2>1, <2>3
  <2>5. QED
    BY <2>2, <2>4 DEF ProcessorInv
<1>5. PortInv'
  BY PortFrame
<1>6. PatienceInv'
  BY PatienceFrame
<1>7. QED
  BY <1>1, <1>2, <1>3, <1>4, <1>5, <1>6 DEF IInv

LEMMA SrcFailsIInv ==
  ASSUME IInv, NEW s \in Starts, SrcFails(s)
  PROVE  IInv'
<1> USE DEF SrcFails, chosen, pageVars, scopeVars, nodeVars, display
<1>1. TypeOK'
  BY Types, NoneIsNoStart DEF TypeOK
<1>2. MicrophoneIsHeld'
  BY HeldFrame
<1>3. StartInv'
  BY StartFrame
<1>4. ProcessorInv'
  <2>1. \A t \in Starts : src'[t] = IF t = s THEN "failed" ELSE src[t]
    BY Types
  <2>2. ProcessorInv /\ UNCHANGED <<page, node, processor>>
    BY DEF IInv
  <2>3. src[s] = "pending"
    OBVIOUS
  <2> HIDE DEF SrcFails
  <2>4. \A t \in Starts : src'[t] # "none" => src[t] # "none"
    BY <2>1, <2>3
  <2>5. QED
    BY <2>2, <2>4 DEF ProcessorInv
<1>5. PortInv'
  BY PortFrame
<1>6. PatienceInv'
  BY PatienceFrame
<1>7. QED
  BY <1>1, <1>2, <1>3, <1>4, <1>5, <1>6 DEF IInv

LEMMA OlafLoadedIInv ==
  ASSUME IInv, NEW s \in Starts, OlafLoaded(s)
  PROVE  IInv'
<1> USE DEF OlafLoaded, chosen, pageVars, scopeVars, nodeVars, display
<1>1. TypeOK'
  BY Types, NoneIsNoStart DEF TypeOK
<1>2. MicrophoneIsHeld'
  BY HeldFrame
<1>3. StartInv'
  BY StartFrame
<1>4. ProcessorInv'
  BY ProcessorFrame
<1>5. PortInv'
  BY PortFrame
<1>6. PatienceInv'
  BY PatienceFrame
<1>7. QED
  BY <1>1, <1>2, <1>3, <1>4, <1>5, <1>6 DEF IInv

LEMMA ProcessWithoutInputIInv ==
  ASSUME IInv, NEW s \in Starts, ProcessWithoutInput(s)
  PROVE  IInv'
<1> USE DEF ProcessWithoutInput, chosen, pageVars, scopeVars, nodeVars, display
<1>1. TypeOK'
  BY Types, NoneIsNoStart DEF TypeOK
<1>2. MicrophoneIsHeld'
  BY HeldFrame
<1>3. StartInv'
  BY StartFrame
<1>4. ProcessorInv'
  BY ProcessorFrame
<1>5. PortInv'
  BY PortFrame
<1>6. PatienceInv'
  BY PatienceFrame
<1>7. QED
  BY <1>1, <1>2, <1>3, <1>4, <1>5, <1>6 DEF IInv

LEMMA MatchIsPostedIInv ==
  ASSUME IInv, NEW s \in Starts, NEW found \in BOOLEAN, NEW zero \in BOOLEAN, MatchIsPosted(s, found, zero)
  PROVE  IInv'
<1> USE DEF MatchIsPosted, chosen, pageVars, scopeVars, nodeVars, display
<1>0. /\ processor[node[s]] \in Starts /\ [from |-> s, found |-> found, offset |-> found /\ ~zero] \in Messages
      /\ Post(processor[node[s]], [from |-> s, found |-> found, offset |-> found /\ ~zero])
      /\ hears[s] /\ node[processor[node[s]]] = s /\ UNCHANGED <<hears, node>>
  <2>1. hears[s] /\ src[s] = "ready" /\ page = "basic"
    BY DEF MayProcess, Ready
  <2>2. node[s] = s /\ processor[s] # None
    BY <2>1 DEF IInv, StartInv, ProcessorInv
  <2>3. processor[s] \in Starts /\ node[processor[s]] = s
    <3>1. ProcessorInv /\ processor[s] \in Starts
      BY <2>2, Types DEF IInv
    <3>2. QED
      BY <2>2, <3>1 DEF ProcessorInv
  <2>4. [from |-> s, found |-> found, offset |-> found /\ ~zero] \in Messages
    BY DEF Messages
  <2>5. QED
    BY <2>1, <2>2, <2>3, <2>4
<1>1. TypeOK'
  <2>1. port' \in [Starts -> Seq(Messages)]
    BY <1>0, PostType
  <2>2. UNCHANGED <<page, patient, phase, live, loaded, hears, handler, dead, context, node, processor,
                    audioContext, overwritten, src, olaf, checked, offset, frames>>
    OBVIOUS
  <2> HIDE DEF MatchIsPosted
  <2>3. QED
    BY <2>1, <2>2, Types DEF TypeOK
<1>2. MicrophoneIsHeld'
  BY HeldFrame
<1>3. StartInv'
  BY StartFrame
<1>4. ProcessorInv'
  BY ProcessorFrame
<1>5. PortInv'
  BY <1>0, PostKeepsPorts
<1>6. PatienceInv'
  BY PatienceFrame
<1>7. QED
  BY <1>1, <1>2, <1>3, <1>4, <1>5, <1>6 DEF IInv

LEMMA RatioIsPostedIInv ==
  ASSUME IInv, NEW s \in Starts, RatioIsPosted(s)
  PROVE  IInv'
<1> USE DEF RatioIsPosted, chosen, pageVars, scopeVars, nodeVars, display
<1>0. /\ [from |-> s, found |-> FALSE, offset |-> FALSE] \in Messages
      /\ Post(s, [from |-> s, found |-> FALSE, offset |-> FALSE])
      /\ hears[s] /\ node[s] = s /\ UNCHANGED <<hears, node>>
  <2>1. [from |-> s, found |-> FALSE, offset |-> FALSE] \in Messages
    BY DEF Messages
  <2>2. node[s] = s
    BY DEF IInv, StartInv
  <2>3. QED
    BY <2>1, <2>2
<1>1. TypeOK'
  <2>1. port' \in [Starts -> Seq(Messages)]
    BY <1>0, PostType
  <2>2. UNCHANGED <<page, patient, phase, live, loaded, hears, handler, dead, context, node, processor,
                    audioContext, overwritten, src, olaf, checked, offset, frames>>
    OBVIOUS
  <2> HIDE DEF RatioIsPosted
  <2>3. QED
    BY <2>1, <2>2, Types DEF TypeOK
<1>2. MicrophoneIsHeld'
  BY HeldFrame
<1>3. StartInv'
  BY StartFrame
<1>4. ProcessorInv'
  BY ProcessorFrame
<1>5. PortInv'
  BY <1>0, PostKeepsPorts
<1>6. PatienceInv'
  BY PatienceFrame
<1>7. QED
  BY <1>1, <1>2, <1>3, <1>4, <1>5, <1>6 DEF IInv

LEMMA ContextClosesIInv ==
  ASSUME IInv, NEW s \in Starts, ContextCloses(s)
  PROVE  IInv'
<1> USE DEF ContextCloses, chosen, pageVars, scopeVars, nodeVars, display
<1>1. TypeOK'
  BY Types, NoneIsNoStart DEF TypeOK
<1>2. MicrophoneIsHeld'
  <2>1. \A t \in Starts : context'[t] = "open" <=> context[t] = "open"
    BY Types
  <2>2. MicrophoneIsHeld /\ UNCHANGED <<live, audioContext, overwritten>>
    BY DEF IInv
  <2> HIDE DEF ContextCloses
  <2>3. QED
    BY <2>1, <2>2 DEF MicrophoneIsHeld
<1>3. StartInv'
  <2>1. \A t \in Starts : context'[t] = "none" <=> context[t] = "none"
    BY Types
  <2>2. StartInv /\ UNCHANGED <<phase, handler, hears, node, overwritten, audioContext>>
    BY DEF IInv
  <2> HIDE DEF ContextCloses
  <2>3. QED
    BY <2>1, <2>2 DEF StartInv
<1>4. ProcessorInv'
  BY ProcessorFrame
<1>5. PortInv'
  BY PortFrame
<1>6. PatienceInv'
  BY PatienceFrame
<1>7. QED
  BY <1>1, <1>2, <1>3, <1>4, <1>5, <1>6 DEF IInv

LEMMA HandleIInv ==
  ASSUME IInv, NEW s \in Starts, Handle(s)
  PROVE  IInv'
<1> USE DEF Handle, chosen, pageVars, scopeVars, nodeVars, display
<1>1. TypeOK'
  <2>1. port[s] \in Seq(Messages) /\ port[s] # <<>>
    BY Types
  <2>2. Head(port[s]) \in Messages /\ Tail(port[s]) \in Seq(Messages)
    BY <2>1
  <2>3. port' \in [Starts -> Seq(Messages)]
    BY <2>2, Types
  <2>4. checked' \in BOOLEAN /\ offset' \in BOOLEAN /\ frames' \in Nat
    <3>1. CASE UpdateMatch(Head(port[s]))
      <4>1. Head(port[s]).found \in BOOLEAN /\ Head(port[s]).offset \in BOOLEAN
        BY <2>2 DEF Messages
      <4>2. frames' = frames \/ frames' = frames + 1
        BY <3>1 DEF UpdateMatch
      <4>3. frames \in Nat
        BY Types
      <4> HIDE DEF Handle
      <4>4. frames' \in Nat
        BY <4>2, <4>3
      <4>5. QED
        BY <3>1, <4>1, <4>4 DEF UpdateMatch
    <3>2. CASE UNCHANGED display
      BY <3>2, Types
    <3>3. QED
      BY <3>1, <3>2
  <2>5. UNCHANGED <<page, patient, phase, live, loaded, hears, handler, dead, context, node, processor,
                    audioContext, overwritten, src, olaf>>
    OBVIOUS
  <2> HIDE DEF Handle
  <2>6. QED
    BY <2>3, <2>4, <2>5, Types DEF TypeOK
<1>2. MicrophoneIsHeld'
  BY HeldFrame
<1>3. StartInv'
  BY StartFrame
<1>4. ProcessorInv'
  BY ProcessorFrame
<1>5. PortInv'
  <2>1. port[s] \in Seq(Messages) /\ port[s] # <<>>
    BY Types
  <2>2. \A t \in Starts : port'[t] = IF t = s THEN Tail(port[s]) ELSE port[t]
    BY Types
  <2>3. \A n \in DOMAIN Tail(port[s]) : n + 1 \in DOMAIN port[s] /\ Tail(port[s])[n] = port[s][n + 1]
    BY <2>1
  <2>4. PortInv /\ UNCHANGED <<hears, node>>
    BY DEF IInv
  <2> HIDE DEF Handle
  <2>5. ASSUME NEW t \in Starts, NEW n \in DOMAIN port'[t]
        PROVE  \E k \in DOMAIN port[t] : port'[t][n] = port[t][k]
    BY <2>2, <2>3
  <2>6. QED
    BY <2>4, <2>5 DEF PortInv
<1>6. PatienceInv'
  BY PatienceFrame
<1>7. QED
  BY <1>1, <1>2, <1>3, <1>4, <1>5, <1>6 DEF IInv

LEMMA ShowEstimatedTimeIInv ==
  ASSUME IInv, ShowEstimatedTime
  PROVE  IInv'
<1> USE DEF ShowEstimatedTime, chosen, pageVars, scopeVars, nodeVars, display
<1>1. TypeOK'
  <2>1. frames \in Nat /\ frames > 0 /\ (frames' = frames \/ frames' = frames - 1)
    BY Types
  <2>2. UNCHANGED <<page, patient, phase, live, loaded, hears, handler, dead, context, node, processor,
                    audioContext, overwritten, src, olaf, port, checked, offset>>
    OBVIOUS
  <2> HIDE DEF ShowEstimatedTime
  <2>3. frames' \in Nat
    BY <2>1
  <2>4. QED
    BY <2>2, <2>3, Types DEF TypeOK
<1>2. MicrophoneIsHeld'
  BY HeldFrame
<1>3. StartInv'
  BY StartFrame
<1>4. ProcessorInv'
  BY ProcessorFrame
<1>5. PortInv'
  BY PortFrame
<1>6. PatienceInv'
  BY PatienceFrame
<1>7. QED
  BY <1>1, <1>2, <1>3, <1>4, <1>5, <1>6 DEF IInv

\* Nothing was clicked yet.
LEMMA InitIInv == Init => IInv
<1> SUFFICES ASSUME Init PROVE IInv
  OBVIOUS
<1> USE NoneIsNoStart DEF Init
<1>1. TypeOK
  <2>1. /\ phase \in [Starts -> {"none"}] /\ context \in [Starts -> {"none"}]
        /\ src \in [Starts -> {"none"}] /\ olaf \in [Starts -> {"none"}]
    OBVIOUS
  <2>2. /\ live \in [Starts -> BOOLEAN] /\ loaded \in [Starts -> BOOLEAN]
        /\ hears \in [Starts -> BOOLEAN] /\ handler \in [Starts -> BOOLEAN]
        /\ dead \in [Starts -> BOOLEAN]
    OBVIOUS
  <2>3. node \in [Starts -> Starts \cup {None}] /\ processor \in [Starts -> Starts \cup {None}]
    OBVIOUS
  <2>4. port \in [Starts -> Seq(Messages)]
    OBVIOUS
  <2>5. /\ page \in {"basic", "resample"} /\ patient \in BOOLEAN /\ audioContext = None
        /\ overwritten = {} /\ checked = FALSE /\ offset = FALSE /\ frames = 0
    OBVIOUS
  <2> HIDE DEF Init
  <2>6. /\ phase \in [Starts -> {"none", "asking", "refused", "loading", "no module",
                                 "running", "no node", "not connected"}]
        /\ context \in [Starts -> {"none", "open", "closing", "closed"}]
        /\ src \in [Starts -> {"none", "pending", "ready", "failed"}]
        /\ olaf \in [Starts -> {"none", "pending", "ready"}]
    BY <2>1
  <2>7. QED
    BY <2>2, <2>3, <2>4, <2>5, <2>6 DEF TypeOK
<1>2. MicrophoneIsHeld /\ StartInv /\ ProcessorInv /\ PatienceInv
  BY DEF MicrophoneIsHeld, StartInv, ProcessorInv, PatienceInv
<1>3. PortInv
  BY DEF PortInv
<1>4. QED
  BY <1>1, <1>2, <1>3 DEF IInv

\* The invariant is inductive.
LEMMA NextIInv ==
  ASSUME IInv, [Next]_vars
  PROVE  IInv'
<1>1. CASE ClickStops
  BY <1>1, ClickStopsIInv
<1>2. CASE ShowEstimatedTime
  BY <1>2, ShowEstimatedTimeIInv
<1>3. ASSUME NEW s \in Starts, ClickStarts(s) \/ Promises(s)
      PROVE  IInv'
  BY <1>3, ClickStartsIInv, MicrophoneIsRefusedIInv, MicrophoneIsThereIInv, ModuleRegistersIInv,
     ModuleFailsIInv, NodeIsMadeIInv, NodeIsNotMadeIInv, NodeIsNotConnectedIInv DEF Promises
<1>4. ASSUME NEW s \in Starts,
             \/ OlafConstructor(s) \/ ResampleConstructor(s)
             \/ SrcCreated(s) \/ SrcFails(s) \/ OlafLoaded(s)
             \/ ProcessWithoutInput(s) \/ RatioIsPosted(s) \/ ContextCloses(s) \/ Handle(s)
      PROVE  IInv'
  BY <1>4, OlafConstructorIInv, ResampleConstructorIInv, SrcCreatedIInv, SrcFailsIInv, OlafLoadedIInv,
     ProcessWithoutInputIInv, RatioIsPostedIInv, ContextClosesIInv, HandleIInv
<1>5. ASSUME NEW s \in Starts, NEW found \in BOOLEAN, NEW zero \in BOOLEAN, MatchIsPosted(s, found, zero)
      PROVE  IInv'
  BY <1>5, MatchIsPostedIInv
<1>6. CASE UNCHANGED vars
  <2> USE <1>6 DEF vars, chosen, pageVars, scopeVars, nodeVars, display
  <2>1. TypeOK'
    BY DEF IInv, TypeOK
  <2>2. MicrophoneIsHeld' /\ StartInv' /\ ProcessorInv' /\ PortInv' /\ PatienceInv'
    BY HeldFrame, StartFrame, ProcessorFrame, PortFrame, PatienceFrame
  <2>3. QED
    BY <2>1, <2>2 DEF IInv
<1>7. QED
  BY <1>1, <1>2, <1>3, <1>4, <1>5, <1>6 DEF Next

\* The invariant holds in every reachable state.
THEOREM Invariance == Spec => []IInv
<1>1. Init => IInv
  BY InitIInv
<1>2. IInv /\ [Next]_vars => IInv'
  BY NextIInv
<1>3. QED
  BY <1>1, <1>2, PTL DEF Spec

-----------------------------------------------------------------------------
(* The properties. *)

\* The variables stay in their types.
THEOREM TypeCorrect == Spec => []TypeOK
<1>1. IInv => TypeOK
  BY DEF IInv
<1>2. QED
  BY <1>1, Invariance, PTL

\* However the clicks and the promises fall, a microphone that is on is that of
\* the context the button stops, or of one that was replaced.
THEOREM MicrophonesAreHeld == Spec => []MicrophoneIsHeld
<1>1. IInv => MicrophoneIsHeld
  BY DEF IInv
<1>2. QED
  BY <1>1, Invariance, PTL

\* A page that listens to a node hears of no match that was found in the sound of
\* another microphone, although processors of one context share a callback.
THEOREM MatchesAreOwn == Spec => []ShownMatchesAreOwn
<1>1. IInv => ShownMatchesAreOwn
  <2> SUFFICES ASSUME IInv, NEW s \in Starts, handler[s], NEW n \in DOMAIN port[s]
               PROVE  port[s][n].from = s
    BY DEF ShownMatchesAreOwn
  <2>1. node[s] = s
    BY DEF IInv, StartInv
  <2>2. QED
    BY <2>1 DEF IInv, PortInv
<1>2. QED
  BY <1>1, Invariance, PTL

\* Who waits until a start is over loses neither a context nor a match.
THEOREM PatienceHelps == Spec => []PatienceIsEnough
<1>1. IInv => PatienceIsEnough
  <2> SUFFICES ASSUME IInv, patient PROVE PatienceIsEnough
    BY DEF PatienceIsEnough
  <2>1. overwritten = {} /\ \A s \in Starts : phase[s] \notin {"no node", "not connected"}
    BY DEF IInv, PatienceInv
  <2>2. ASSUME NEW s \in Starts, port[s] # << >> PROVE handler[s]
    <3>1. port[s] \in Seq(Messages) /\ 1 \in DOMAIN port[s]
      <4>1. port[s] \in Seq(Messages)
        BY Types
      <4>2. Len(port[s]) \in Nat /\ Len(port[s]) # 0 /\ DOMAIN port[s] = 1 .. Len(port[s])
        BY <2>2, <4>1
      <4>3. QED
        BY <4>1, <4>2
    <3>2. port[s][1].from \in Starts /\ node[s] = port[s][1].from
      BY <3>1, MessagesAreTyped DEF IInv, PortInv
    <3>3. phase[s] = "running"
      BY <2>1, <3>2, NoneIsNoStart DEF IInv, StartInv
    <3>4. QED
      BY <3>3 DEF IInv, StartInv
  <2>3. QED
    BY <2>1, <2>2 DEF PatienceIsEnough
<1>2. QED
  BY <1>1, Invariance, PTL

=============================================================================
