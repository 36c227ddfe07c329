------------------------- MODULE SourceSessionProof -------------------------
(* TLAPS proofs about SourceSession, for any number of batches, window,    *)
(* spawn cap and bounds.                                                   *)
EXTENDS SourceSession, FiniteSetTheorems, TLAPS

(* The inductive invariant.  What carries the two results is the chain of  *)
(* an Ok answer: the unit is durable (or slipped) when the request closes, *)
(* so is every ack on its way, every entry of completed and, once it is    *)
(* waited for, every batch below next; the checkpoint frame and Completed  *)
(* are sent only then.                                                     *)

Safe == durable \cup slipped

\* An Ok answer, wherever it is, is of a batch in the WAL.
AnswersSafe ==
    /\ \A a \in acks : a.result = "ok" => a.at \in Safe
    /\ \A i \in 1..Len(answers) : answers[i].result = "ok" => answers[i].at \in Safe
    /\ \A b \in Batches : completed[b] = "ok" => b \in Safe

\* A batch below next is in the WAL or still waited for, and a living plugin
\* has or will get the answer of every batch it has to wait for.
BelowNextSafe ==
    /\ \A b \in Batches : b < next => b \in Safe \cup waiting
    /\ plugin # "gone" => \A b \in waiting : b \in pending \/ completed[b] # "none"

\* Checkpoints on their way, and the persisted one, cover the WAL.
CheckpointsSafe ==
    /\ \A i \in 1..Len(data) : data[i].kind = "checkpoint" => Covered(data[i].at)
    /\ frame.kind = "checkpoint" => Covered(frame.at)
    /\ Covered(checkpoint)

\* Completed is sent by a plugin that has gone with everything answered Ok.
CompletedSafe ==
    (ctlDone \/ \E i \in 1..Len(control) : control[i] = "completed")
        => plugin = "gone" /\ Covered(next - 1)

\* The frame at hand belongs to where the host is.
FrameFitsHost ==
    /\ host = "throttle" => frame.at \in Batches
    /\ host = "drain" => frame.kind \in {"checkpoint", "completed", "finish"}
    /\ host = "flush" => frame.kind \in {"checkpoint", "finish"}
    /\ host = "persist" => frame.kind = "checkpoint"
    /\ host \in {"drain", "flush"} /\ frame.kind = "finish" => ctlDone
    /\ host = "ok" => ctlDone

IInv == AnswersSafe /\ BelowNextSafe /\ CheckpointsSafe /\ CompletedSafe /\ FrameFitsHost

(* The second inductive invariant is about the order of the checkpoints    *)
(* between the plugin and the WAL: on the data channel, at hand in the     *)
(* host, persisted.                                                        *)

\* Checkpoints are persisted in the order they are sent: each is larger than
\* those before it, none lies beyond the last one sent.
CheckpointsInOrder ==
    /\ checkpoint <= stored
    /\ \A i \in 1..Len(data) : data[i].kind = "checkpoint" =>
         /\ checkpoint < data[i].at /\ data[i].at <= stored
         /\ frame.kind = "checkpoint" => frame.at < data[i].at
         /\ \A j \in 1..Len(data) :
              i < j /\ data[j].kind = "checkpoint" => data[i].at < data[j].at
    /\ frame.kind = "checkpoint" => checkpoint <= frame.at /\ frame.at <= stored

\* The last checkpoint sent is persisted, at hand or on the channel.
LastOnItsWay ==
    \/ checkpoint = stored
    \/ frame.kind = "checkpoint" /\ frame.at = stored
    \/ \E i \in 1..Len(data) : data[i].kind = "checkpoint" /\ data[i].at = stored

\* The host leaves its loop with no frame at hand and the data channel read
\* to its end, which nobody writes to any more.
ChannelsDone ==
    /\ host = "loop" => frame.kind = "none"
    /\ host = "throttle" => frame.kind = "batch"
    /\ host \in {"drain", "flush"} /\ frame.kind = "finish" => dataDone
    /\ host = "ok" => dataDone /\ frame.kind = "finish"
    /\ dataDone => data = <<>> /\ plugin = "gone"

OrderInv == CheckpointsInOrder /\ LastOnItsWay /\ ChannelsDone

----------------------------------------------------------------------------
\* What taking from and adding to a channel does.
LEMMA TakeFirst ==
    ASSUME NEW S, NEW q \in Seq(S), q # <<>>
    PROVE  /\ Head(q) \in S /\ Tail(q) \in Seq(S)
           /\ 1 \in 1..Len(q) /\ Head(q) = q[1]
           /\ \A i \in 1..Len(Tail(q)) : i + 1 \in 1..Len(q) /\ Tail(q)[i] = q[i + 1]
OBVIOUS

LEMMA AddLast ==
    ASSUME NEW S, NEW q \in Seq(S), NEW e \in S
    PROVE  /\ Append(q, e) \in Seq(S)
           /\ \A i \in 1..Len(Append(q, e)) :
                 \/ i \in 1..Len(q) /\ Append(q, e)[i] = q[i]
                 \/ Append(q, e)[i] = e
OBVIOUS

\* Two frames the host makes up itself.
LEMMA HostFrames ==
    LET Frames == [kind : {"none", "batch", "checkpoint", "completed", "finish"},
                   at : 0..NumBatches]
    IN  /\ NoFrame \in Frames /\ Frame("completed", 0) \in Frames
        /\ Frame("finish", 0) \in Frames
BY SessionAssumption DEF NoFrame, Frame

\* Facts about finite sets of batches that Submit and ResolveAck need.
LEMMA PendingCardinality ==
    ASSUME NEW S, S \subseteq Batches
    PROVE  /\ IsFiniteSet(S) /\ Cardinality(S) \in Nat
           /\ \A b \in Batches : /\ Cardinality(S \cup {b}) <= Cardinality(S) + 1
                                /\ Cardinality(S \ {b}) <= Cardinality(S)
<1>1. IsFiniteSet(Batches)
  BY SessionAssumption, FS_Interval DEF Batches
<1>2. IsFiniteSet(S)
  BY <1>1, FS_Subset
<1>3. Cardinality(S) \in Nat
  BY <1>2, FS_CardinalityType
<1>4. ASSUME NEW b \in Batches
      PROVE  Cardinality(S \cup {b}) <= Cardinality(S) + 1 /\ Cardinality(S \ {b}) <= Cardinality(S)
  <2>1. CASE b \in S
    <3>1. S \cup {b} = S
      BY <2>1
    <3>2. Cardinality(S \ {b}) = Cardinality(S) - 1
      BY <1>2, <2>1, FS_RemoveElement
    <3> QED BY <1>3, <3>1, <3>2
  <2>2. CASE b \notin S
    <3>1. Cardinality(S \cup {b}) = Cardinality(S) + 1
      BY <1>2, <2>2, FS_AddElement
    <3>2. S \ {b} = S
      BY <2>2
    <3> QED BY <1>3, <3>1, <3>2
  <2> QED BY <2>1, <2>2
<1> QED BY <1>2, <1>3, <1>4

\* Every step is one of the actions or a stutter.
LEMMA StepCases ==
    [Next]_vars <=> \/ Submit \/ WaitPayloadAcks \/ StoreCheckpoint \/ SyncReturns \/ DrainPayloadAcks \/ ResolveAck
                   \/ TakeControlFrame \/ ControlEof \/ ForwardAck \/ TakeDataFrame \/ ThrottleJoins \/ SpawnTask
                   \/ DrainJoins \/ DrainDone \/ Flush \/ PersistCheckpoint \/ DataEof \/ Finish
                   \/ (\E b \in Batches : RunTask(b) \/ UnitPersists(b) \/ UnitFails(b))
                   \/ OnceIdle \/ SyncErrs \/ PluginDies \/ Restart
                   \/ UNCHANGED vars
BY DEF Next, PluginStep, HostStep, IngestStep

(* TypeOK, by the part of the state it is about.                           *)
TypePlugin ==
    /\ plugin \in {"run", "drain", "gone"}
    /\ next \in 1..(NumBatches + 1) /\ waiting \subseteq Batches /\ stored \in 0..NumBatches

TypeClient ==
    /\ pending \subseteq Batches /\ Cardinality(pending) <= Window
    /\ completed \in [Batches -> {"none", "ok", "err"}]

TypeChannels ==
    /\ data \in Seq([kind : {"batch", "checkpoint"}, at : Batches])
    /\ control \in Seq({"completed", "error"})
    /\ answers \in Seq([at : Batches, result : {"ok", "err"}])

TypeHost ==
    /\ host \in {"loop", "throttle", "drain", "flush", "persist", "ok", "err"}
    /\ frame \in [kind : {"none", "batch", "checkpoint", "completed", "finish"},
                  at : 0..NumBatches]
    /\ ctlDone \in BOOLEAN /\ dataDone \in BOOLEAN /\ unflushed \in BOOLEAN

TypeIngest ==
    /\ task \in [Batches -> {"none", "running", "ok", "err", "joined"}]
    /\ unit \in [Batches -> {"none", "queued", "done"}]
    /\ request \in [Batches -> {"none", "open"}]
    /\ acks \subseteq [at : Batches, result : {"ok", "err"}]

TypeWal ==
    /\ durable \subseteq Batches /\ slipped \subseteq Batches
    /\ checkpoint \in 0..NumBatches
    /\ failures \in 0..MaxFailures /\ restarts \in 0..MaxRestarts

LEMMA TypeParts ==
    TypeOK <=> TypePlugin /\ TypeClient /\ TypeChannels /\ TypeHost /\ TypeIngest /\ TypeWal
BY DEF TypeOK, TypePlugin, TypeClient, TypeChannels, TypeHost, TypeIngest, TypeWal

\* The types of SourceSession, preserved by every action.
LEMMA TypeStep == TypeOK /\ FrameFitsHost /\ [Next]_vars => TypeOK'
<1> SUFFICES ASSUME TypeOK, FrameFitsHost, [Next]_vars PROVE TypeOK'
  OBVIOUS
<1> USE SessionAssumption
<1>t. TypePlugin /\ TypeClient /\ TypeChannels /\ TypeHost /\ TypeIngest /\ TypeWal
  BY TypeParts
<1>1. CASE Submit
  <2>1. TypePlugin'
    BY <1>t, <1>1 DEF Submit, Frame, Batches, TypePlugin, pluginVars
  <2>2. TypeClient'
    <3>1. /\ next \in Batches /\ Cardinality(pending) < Window
          /\ pending' = pending \cup {next} /\ completed' = completed
      BY <1>1 DEF Submit
    <3>2. /\ Cardinality(pending) \in Nat
          /\ Cardinality(pending \cup {next}) <= Cardinality(pending) + 1
          /\ Cardinality(pending \cup {next}) \in Nat
      BY <1>t, <3>1, PendingCardinality DEF TypeClient
    <3> QED BY <1>t, <3>1, <3>2 DEF TypeClient
  <2>3. TypeChannels'
    BY <1>t, <1>1 DEF Submit, Frame, Batches, TypeChannels, TypePlugin, channelVars
  <2>4. TypeHost' /\ TypeIngest' /\ TypeWal'
    BY <1>t, <1>1 DEF Submit, Frame, TypeHost, TypeIngest, TypeWal, pluginVars, clientVars,
        channelVars, hostVars, ingestVars, walVars, boundVars
  <2> QED BY <2>1, <2>2, <2>3, <2>4 DEF TypeOK, TypePlugin, TypeClient, TypeChannels, TypeHost,
      TypeIngest, TypeWal
<1>2. CASE WaitPayloadAcks
  <2>1. TypePlugin'
    BY <1>t, <1>2 DEF WaitPayloadAcks, Batches, TypePlugin, pluginVars
  <2>2. TypeClient'
    BY <1>t, <1>2 DEF WaitPayloadAcks, Batches, TypeClient, clientVars
  <2>3. TypeChannels'
    <3>1. data' = data /\ answers' = answers
      BY <1>2 DEF WaitPayloadAcks
    <3>2. control' = control \/ control' = Append(control, "error")
      BY <1>2 DEF WaitPayloadAcks
    <3> QED BY <1>t, <3>1, <3>2 DEF TypeChannels
  <2>4. TypeHost' /\ TypeIngest' /\ TypeWal'
    BY <1>t, <1>2 DEF WaitPayloadAcks, TypeHost, TypeIngest, TypeWal, pluginVars, clientVars,
        channelVars, hostVars, ingestVars, walVars, boundVars
  <2> QED BY <2>1, <2>2, <2>3, <2>4 DEF TypeOK, TypePlugin, TypeClient, TypeChannels, TypeHost,
      TypeIngest, TypeWal
<1>3. CASE StoreCheckpoint
  <2>1. TypePlugin'
    BY <1>t, <1>3 DEF StoreCheckpoint, Frame, Batches, TypePlugin, pluginVars
  <2>2. TypeChannels'
    BY <1>t, <1>3 DEF StoreCheckpoint, Frame, Batches, TypeChannels, TypePlugin, channelVars
  <2>3. TypeClient' /\ TypeHost' /\ TypeIngest' /\ TypeWal'
    BY <1>t, <1>3 DEF StoreCheckpoint, Frame, TypeClient, TypeHost, TypeIngest, TypeWal,
        pluginVars, clientVars, channelVars, hostVars, ingestVars, walVars, boundVars
  <2> QED BY <2>1, <2>2, <2>3 DEF TypeOK, TypePlugin, TypeClient, TypeChannels, TypeHost,
      TypeIngest, TypeWal
<1>4. CASE SyncReturns
  <2>1. TypePlugin'
    BY <1>t, <1>4 DEF SyncReturns, Batches, TypePlugin, pluginVars
  <2>2. TypeClient' /\ TypeChannels' /\ TypeHost' /\ TypeIngest' /\ TypeWal'
    BY <1>t, <1>4 DEF SyncReturns, TypeClient, TypeChannels, TypeHost, TypeIngest, TypeWal,
        pluginVars, clientVars, channelVars, hostVars, ingestVars, walVars, boundVars
  <2> QED BY <2>1, <2>2 DEF TypeOK, TypePlugin, TypeClient, TypeChannels, TypeHost, TypeIngest,
      TypeWal
<1>5. CASE DrainPayloadAcks
  <2>1. TypePlugin'
    BY <1>t, <1>5 DEF DrainPayloadAcks, Batches, TypePlugin, pluginVars
  <2>2. TypeClient'
    BY <1>t, <1>5 DEF DrainPayloadAcks, Batches, TypeClient, clientVars
  <2>3. TypeChannels'
    BY <1>t, <1>5 DEF DrainPayloadAcks, Batches, TypeChannels, channelVars
  <2>4. TypeHost' /\ TypeIngest' /\ TypeWal'
    BY <1>t, <1>5 DEF DrainPayloadAcks, TypeHost, TypeIngest, TypeWal, pluginVars, clientVars,
        channelVars, hostVars, ingestVars, walVars, boundVars
  <2> QED BY <2>1, <2>2, <2>3, <2>4 DEF TypeOK, TypePlugin, TypeClient, TypeChannels, TypeHost,
      TypeIngest, TypeWal
<1>6. CASE ResolveAck
  <2>1. TypeClient'
    <3> DEFINE ack == Head(answers)
    <3>1. ack \in [at : Batches, result : {"ok", "err"}]
      BY <1>t, <1>6, TakeFirst DEF ResolveAck, TypeChannels
    <3>2. /\ pending' = pending \ {ack.at}
          /\ completed' = [completed EXCEPT ![ack.at] = ack.result]
      BY <1>6 DEF ResolveAck
    <3>3. ack.at \in Batches /\ ack.result \in {"none", "ok", "err"}
      BY <3>1
    <3> HIDE DEF ack
    <3>4. /\ Cardinality(pending) \in Nat /\ Cardinality(pending \ {ack.at}) \in Nat
          /\ Cardinality(pending \ {ack.at}) <= Cardinality(pending)
      BY <1>t, <3>3, PendingCardinality DEF TypeClient
    <3> QED BY <1>t, <3>2, <3>3, <3>4 DEF TypeClient
  <2>2. TypeChannels'
    BY <1>t, <1>6 DEF ResolveAck, Batches, TypeChannels, channelVars
  <2>3. TypePlugin' /\ TypeHost' /\ TypeIngest' /\ TypeWal'
    BY <1>t, <1>6 DEF ResolveAck, TypePlugin, TypeHost, TypeIngest, TypeWal, pluginVars,
        clientVars, channelVars, hostVars, ingestVars, walVars, boundVars
  <2> QED BY <2>1, <2>2, <2>3 DEF TypeOK, TypePlugin, TypeClient, TypeChannels, TypeHost,
      TypeIngest, TypeWal
<1>7. CASE TakeControlFrame
  <2>1. TypePlugin'
    BY <1>t, <1>7 DEF TakeControlFrame, HostErr, Frame, Batches, TypePlugin, pluginVars
  <2>2. TypeChannels'
    BY <1>t, <1>7 DEF TakeControlFrame, HostErr, Frame, Batches, TypeChannels, channelVars
  <2>3. TypeHost'
    <3>1. CASE /\ ctlDone' = TRUE /\ host' = "drain" /\ frame' = Frame("completed", 0)
               /\ UNCHANGED <<dataDone, unflushed>>
      BY <1>t, <3>1, HostFrames DEF TypeHost
    <3>2. CASE HostErr
      BY <1>t, <3>2 DEF HostErr, TypeHost
    <3> QED BY <1>7, <3>1, <3>2 DEF TakeControlFrame
  <2>4. TypeClient' /\ TypeIngest' /\ TypeWal'
    BY <1>t, <1>7 DEF TakeControlFrame, HostErr, Frame, TypeClient, TypeIngest, TypeWal,
        pluginVars, clientVars, channelVars, hostVars, ingestVars, walVars, boundVars
  <2> QED BY <2>1, <2>2, <2>3, <2>4 DEF TypeOK, TypePlugin, TypeClient, TypeChannels, TypeHost,
      TypeIngest, TypeWal
<1>8. CASE ControlEof
  <2>1. TypePlugin'
    BY <1>t, <1>8 DEF ControlEof, HostErr, Batches, TypePlugin, pluginVars
  <2>2. TypeHost'
    BY <1>t, <1>8 DEF ControlEof, HostErr, Batches, TypeHost, hostVars
  <2>3. TypeClient' /\ TypeChannels' /\ TypeIngest' /\ TypeWal'
    BY <1>t, <1>8 DEF ControlEof, HostErr, TypeClient, TypeChannels, TypeIngest, TypeWal,
        pluginVars, clientVars, channelVars, hostVars, ingestVars, walVars, boundVars
  <2> QED BY <2>1, <2>2, <2>3 DEF TypeOK, TypePlugin, TypeClient, TypeChannels, TypeHost,
      TypeIngest, TypeWal
<1>9. CASE ForwardAck
  <2>1. TypePlugin'
    BY <1>t, <1>9 DEF ForwardAck, HostErr, Batches, TypePlugin, pluginVars
  <2>2. TypeChannels'
    <3>1. data' = data /\ control' = control
      BY <1>9 DEF ForwardAck
    <3>2. PICK ack \in acks : answers' = Append(answers, ack) \/ answers' = answers
      BY <1>9 DEF ForwardAck
    <3>3. ack \in [at : Batches, result : {"ok", "err"}]
      BY <1>t, <3>2 DEF TypeIngest
    <3>4. Append(answers, ack) \in Seq([at : Batches, result : {"ok", "err"}])
      BY <1>t, <3>3, AddLast DEF TypeChannels
    <3> QED BY <1>t, <3>1, <3>2, <3>4 DEF TypeChannels
  <2>3. TypeHost'
    BY <1>t, <1>9 DEF ForwardAck, HostErr, Batches, TypeHost, hostVars
  <2>4. TypeIngest'
    BY <1>t, <1>9 DEF ForwardAck, HostErr, Batches, TypeIngest, ingestVars
  <2>5. TypeClient' /\ TypeWal'
    BY <1>t, <1>9 DEF ForwardAck, HostErr, TypeClient, TypeWal, pluginVars, clientVars,
        channelVars, hostVars, ingestVars, walVars, boundVars
  <2> QED BY <2>1, <2>2, <2>3, <2>4, <2>5 DEF TypeOK, TypePlugin, TypeClient, TypeChannels,
      TypeHost, TypeIngest, TypeWal
<1>10. CASE TakeDataFrame
  <2>1. TypeChannels'
    BY <1>t, <1>10 DEF TakeDataFrame, Batches, TypeChannels, channelVars
  <2>2. TypeHost'
    <3>1. /\ frame' = Head(data) /\ host' \in {"throttle", "drain"}
          /\ UNCHANGED <<ctlDone, dataDone, unflushed>>
      BY <1>10 DEF TakeDataFrame
    <3>2. Head(data) \in [kind : {"batch", "checkpoint"}, at : Batches]
      BY <1>t, <1>10, TakeFirst DEF TakeDataFrame, TypeChannels
    <3>3. Head(data) \in [kind : {"none", "batch", "checkpoint", "completed", "finish"},
                          at : 0..NumBatches]
      BY <3>2 DEF Batches
    <3> QED BY <1>t, <3>1, <3>3 DEF TypeHost
  <2>3. TypeIngest'
    BY <1>t, <1>10 DEF TakeDataFrame, Batches, TypeIngest, TypeChannels, ingestVars
  <2>4. TypePlugin' /\ TypeClient' /\ TypeWal'
    BY <1>t, <1>10 DEF TakeDataFrame, TypePlugin, TypeClient, TypeWal, pluginVars, clientVars,
        channelVars, hostVars, ingestVars, walVars, boundVars
  <2> QED BY <2>1, <2>2, <2>3, <2>4 DEF TypeOK, TypePlugin, TypeClient, TypeChannels, TypeHost,
      TypeIngest, TypeWal
<1>11. CASE ThrottleJoins
  <2>1. TypePlugin'
    BY <1>t, <1>11 DEF ThrottleJoins, HostErr, CloseRequest, Ack, Finished, Batches,
        TypePlugin, FrameFitsHost, TypeHost, TypeIngest, pluginVars
  <2>2. TypeHost'
    BY <1>t, <1>11 DEF ThrottleJoins, HostErr, CloseRequest, Ack, Finished, Batches, TypeHost,
        FrameFitsHost, TypeIngest, hostVars
  <2>3. TypeIngest'
    BY <1>t, <1>11 DEF ThrottleJoins, HostErr, CloseRequest, Ack, Finished, Batches,
        TypeIngest, FrameFitsHost, TypeHost, ingestVars
  <2>4. TypeClient' /\ TypeChannels' /\ TypeWal'
    BY <1>t, <1>11 DEF ThrottleJoins, HostErr, CloseRequest, Ack, Finished, TypeClient,
        TypeChannels, TypeWal, pluginVars, clientVars, channelVars, hostVars, ingestVars,
            walVars, boundVars
  <2> QED BY <2>1, <2>2, <2>3, <2>4 DEF TypeOK, TypePlugin, TypeClient, TypeChannels, TypeHost,
      TypeIngest, TypeWal
<1>12. CASE SpawnTask
  <2>1. TypeHost'
    BY <1>t, <1>12 DEF SpawnTask, NoFrame, Batches, TypeHost, FrameFitsHost, hostVars
  <2>2. TypeIngest'
    BY <1>t, <1>12 DEF SpawnTask, NoFrame, Batches, TypeIngest, FrameFitsHost, TypeHost,
        ingestVars
  <2>3. TypePlugin' /\ TypeClient' /\ TypeChannels' /\ TypeWal'
    BY <1>t, <1>12 DEF SpawnTask, NoFrame, TypePlugin, TypeClient, TypeChannels, TypeWal,
        pluginVars, clientVars, channelVars, hostVars, ingestVars, walVars, boundVars
  <2> QED BY <2>1, <2>2, <2>3 DEF TypeOK, TypePlugin, TypeClient, TypeChannels, TypeHost,
      TypeIngest, TypeWal
<1>13. CASE DrainJoins
  <2>1. TypePlugin'
    BY <1>t, <1>13 DEF DrainJoins, HostErr, Finished, Batches, TypePlugin, pluginVars
  <2>2. TypeHost'
    BY <1>t, <1>13 DEF DrainJoins, HostErr, Finished, Batches, TypeHost, hostVars
  <2>3. TypeIngest'
    BY <1>t, <1>13 DEF DrainJoins, HostErr, Finished, Batches, TypeIngest, ingestVars
  <2>4. TypeClient' /\ TypeChannels' /\ TypeWal'
    BY <1>t, <1>13 DEF DrainJoins, HostErr, Finished, TypeClient, TypeChannels, TypeWal,
        pluginVars, clientVars, channelVars, hostVars, ingestVars, walVars, boundVars
  <2> QED BY <2>1, <2>2, <2>3, <2>4 DEF TypeOK, TypePlugin, TypeClient, TypeChannels, TypeHost,
      TypeIngest, TypeWal
<1>14. CASE DrainDone
  <2>1. TypeHost'
    BY <1>t, <1>14 DEF DrainDone, NoFrame, Batches, TypeHost, hostVars
  <2>2. TypePlugin' /\ TypeClient' /\ TypeChannels' /\ TypeIngest' /\ TypeWal'
    BY <1>t, <1>14 DEF DrainDone, NoFrame, TypePlugin, TypeClient, TypeChannels, TypeIngest,
        TypeWal, pluginVars, clientVars, channelVars, hostVars, ingestVars, walVars, boundVars
  <2> QED BY <2>1, <2>2 DEF TypeOK, TypePlugin, TypeClient, TypeChannels, TypeHost, TypeIngest,
      TypeWal
<1>15. CASE Flush
  <2>1. TypePlugin'
    BY <1>t, <1>15 DEF Flush, HostErr, Batches, TypePlugin, pluginVars
  <2>2. TypeHost'
    BY <1>t, <1>15 DEF Flush, HostErr, Batches, TypeHost, hostVars
  <2>3. TypeWal'
    BY <1>t, <1>15 DEF Flush, HostErr, Batches, TypeWal, walVars, boundVars
  <2>4. TypeClient' /\ TypeChannels' /\ TypeIngest'
    BY <1>t, <1>15 DEF Flush, HostErr, TypeClient, TypeChannels, TypeIngest, pluginVars,
        clientVars, channelVars, hostVars, ingestVars, walVars, boundVars
  <2> QED BY <2>1, <2>2, <2>3, <2>4 DEF TypeOK, TypePlugin, TypeClient, TypeChannels, TypeHost,
      TypeIngest, TypeWal
<1>16. CASE PersistCheckpoint
  <2>1. TypePlugin'
    BY <1>t, <1>16 DEF PersistCheckpoint, HostErr, NoFrame, Batches, TypePlugin, pluginVars
  <2>2. TypeHost'
    BY <1>t, <1>16 DEF PersistCheckpoint, HostErr, NoFrame, Batches, TypeHost, hostVars
  <2>3. TypeWal'
    BY <1>t, <1>16 DEF PersistCheckpoint, HostErr, NoFrame, Batches, TypeWal, TypeHost,
        walVars, boundVars
  <2>4. TypeClient' /\ TypeChannels' /\ TypeIngest'
    BY <1>t, <1>16 DEF PersistCheckpoint, HostErr, NoFrame, TypeClient, TypeChannels,
        TypeIngest, pluginVars, clientVars, channelVars, hostVars, ingestVars, walVars, boundVars
  <2> QED BY <2>1, <2>2, <2>3, <2>4 DEF TypeOK, TypePlugin, TypeClient, TypeChannels, TypeHost,
      TypeIngest, TypeWal
<1>17. CASE DataEof
  <2>1. TypeHost'
    BY <1>t, <1>17 DEF DataEof, Batches, TypeHost, hostVars
  <2>2. TypePlugin' /\ TypeClient' /\ TypeChannels' /\ TypeIngest' /\ TypeWal'
    BY <1>t, <1>17 DEF DataEof, TypePlugin, TypeClient, TypeChannels, TypeIngest, TypeWal,
        pluginVars, clientVars, channelVars, hostVars, ingestVars, walVars, boundVars
  <2> QED BY <2>1, <2>2 DEF TypeOK, TypePlugin, TypeClient, TypeChannels, TypeHost, TypeIngest,
      TypeWal
<1>18. CASE Finish
  <2>1. TypeHost'
    BY <1>t, <1>18 DEF Finish, Frame, Batches, TypeHost, hostVars
  <2>2. TypePlugin' /\ TypeClient' /\ TypeChannels' /\ TypeIngest' /\ TypeWal'
    BY <1>t, <1>18 DEF Finish, Frame, TypePlugin, TypeClient, TypeChannels, TypeIngest,
        TypeWal, pluginVars, clientVars, channelVars, hostVars, ingestVars, walVars, boundVars
  <2> QED BY <2>1, <2>2 DEF TypeOK, TypePlugin, TypeClient, TypeChannels, TypeHost, TypeIngest,
      TypeWal
<1>19. ASSUME NEW b \in Batches, RunTask(b) PROVE TypeOK'
  <2>1. TypeIngest'
    <3>1. /\ task' \in [Batches -> {"none", "running", "ok", "err", "joined"}]
          /\ unit' \in [Batches -> {"none", "queued", "done"}]
      BY <1>t, <1>19 DEF RunTask, TypeIngest
    <3>2. UNCHANGED <<request, acks>> \/ CloseRequest(b, "err")
      BY <1>19 DEF RunTask
    <3>3. /\ request' \in [Batches -> {"none", "open"}]
          /\ acks' \subseteq [at : Batches, result : {"ok", "err"}]
      BY <1>t, <3>2 DEF CloseRequest, Ack, TypeIngest
    <3> QED BY <3>1, <3>3 DEF TypeIngest
  <2>2. TypeWal'
    BY <1>t, <1>19 DEF RunTask, CloseRequest, Ack, Batches, TypeWal, walVars, boundVars
  <2>3. TypePlugin' /\ TypeClient' /\ TypeChannels' /\ TypeHost'
    BY <1>t, <1>19 DEF RunTask, CloseRequest, Ack, TypePlugin, TypeClient, TypeChannels,
        TypeHost, pluginVars, clientVars, channelVars, hostVars, ingestVars, walVars, boundVars
  <2> QED BY <2>1, <2>2, <2>3 DEF TypeOK, TypePlugin, TypeClient, TypeChannels, TypeHost,
      TypeIngest, TypeWal
<1>20. ASSUME NEW b \in Batches, UnitPersists(b) PROVE TypeOK'
  <2>1. TypeIngest'
    BY <1>t, <1>20 DEF UnitPersists, CloseRequest, Ack, Batches, TypeIngest, ingestVars
  <2>2. TypeWal'
    BY <1>t, <1>20 DEF UnitPersists, CloseRequest, Ack, Batches, TypeWal, walVars, boundVars
  <2>3. TypePlugin' /\ TypeClient' /\ TypeChannels' /\ TypeHost'
    BY <1>t, <1>20 DEF UnitPersists, CloseRequest, Ack, TypePlugin, TypeClient, TypeChannels,
        TypeHost, pluginVars, clientVars, channelVars, hostVars, ingestVars, walVars, boundVars
  <2> QED BY <2>1, <2>2, <2>3 DEF TypeOK, TypePlugin, TypeClient, TypeChannels, TypeHost,
      TypeIngest, TypeWal
<1>21. ASSUME NEW b \in Batches, UnitFails(b) PROVE TypeOK'
  <2>1. TypeIngest'
    <3>1. CloseRequest(b, "err") \/ CloseRequest(b, "ok")
      BY <1>21 DEF UnitFails
    <3>2. task' = task /\ unit' = [unit EXCEPT ![b] = "done"]
      BY <1>21 DEF UnitFails
    <3>3. /\ request' \in [Batches -> {"none", "open"}]
          /\ acks' \subseteq [at : Batches, result : {"ok", "err"}]
      BY <1>t, <1>21, <3>1 DEF CloseRequest, Ack, TypeIngest
    <3> QED BY <1>t, <1>21, <3>2, <3>3 DEF TypeIngest
  <2>2. TypeWal'
    <3>1. slipped' = slipped \/ slipped' = slipped \cup {b}
      BY <1>21 DEF UnitFails
    <3>2. /\ durable' = durable /\ checkpoint' = checkpoint /\ restarts' = restarts
          /\ failures < MaxFailures /\ failures' = failures + 1
      BY <1>21 DEF UnitFails
    <3>3. failures' \in 0..MaxFailures
      BY <1>t, <3>2 DEF TypeWal
    <3> QED BY <1>t, <1>21, <3>1, <3>2, <3>3 DEF TypeWal
  <2>3. TypePlugin' /\ TypeClient' /\ TypeChannels' /\ TypeHost'
    BY <1>t, <1>21 DEF UnitFails, CloseRequest, Ack, TypePlugin, TypeClient, TypeChannels,
        TypeHost, pluginVars, clientVars, channelVars, hostVars, ingestVars, walVars, boundVars
  <2> QED BY <2>1, <2>2, <2>3 DEF TypeOK, TypePlugin, TypeClient, TypeChannels, TypeHost,
      TypeIngest, TypeWal
<1>22. CASE OnceIdle
  <2>1. TypePlugin'
    BY <1>t, <1>22 DEF OnceIdle, Batches, TypePlugin, pluginVars
  <2>2. TypeClient' /\ TypeChannels' /\ TypeHost' /\ TypeIngest' /\ TypeWal'
    BY <1>t, <1>22 DEF OnceIdle, TypeClient, TypeChannels, TypeHost, TypeIngest, TypeWal,
        pluginVars, clientVars, channelVars, hostVars, ingestVars, walVars, boundVars
  <2> QED BY <2>1, <2>2 DEF TypeOK, TypePlugin, TypeClient, TypeChannels, TypeHost, TypeIngest,
      TypeWal
<1>23. CASE SyncErrs
  <2>1. TypePlugin'
    BY <1>t, <1>23 DEF SyncErrs, Batches, TypePlugin, pluginVars
  <2>2. TypeChannels'
    BY <1>t, <1>23 DEF SyncErrs, Batches, TypeChannels, channelVars
  <2>3. TypeWal'
    BY <1>t, <1>23 DEF SyncErrs, Batches, TypeWal, walVars, boundVars
  <2>4. TypeClient' /\ TypeHost' /\ TypeIngest'
    BY <1>t, <1>23 DEF SyncErrs, TypeClient, TypeHost, TypeIngest, pluginVars, clientVars,
        channelVars, hostVars, ingestVars, walVars, boundVars
  <2> QED BY <2>1, <2>2, <2>3, <2>4 DEF TypeOK, TypePlugin, TypeClient, TypeChannels, TypeHost,
      TypeIngest, TypeWal
<1>24. CASE PluginDies
  <2>1. TypePlugin'
    BY <1>t, <1>24 DEF PluginDies, Batches, TypePlugin, pluginVars
  <2>2. TypeWal'
    BY <1>t, <1>24 DEF PluginDies, Batches, TypeWal, walVars, boundVars
  <2>3. TypeClient' /\ TypeChannels' /\ TypeHost' /\ TypeIngest'
    BY <1>t, <1>24 DEF PluginDies, TypeClient, TypeChannels, TypeHost, TypeIngest, pluginVars,
        clientVars, channelVars, hostVars, ingestVars, walVars, boundVars
  <2> QED BY <2>1, <2>2, <2>3 DEF TypeOK, TypePlugin, TypeClient, TypeChannels, TypeHost,
      TypeIngest, TypeWal
<1>25. CASE Restart
  <2>1. TypePlugin'
    BY <1>t, <1>25 DEF Restart, NoFrame, Batches, TypePlugin, TypeWal, pluginVars
  <2>2. TypeClient'
    BY <1>t, <1>25, FS_EmptySet DEF Restart, NoFrame, Batches, TypeClient, clientVars
  <2>3. TypeChannels'
    BY <1>t, <1>25 DEF Restart, NoFrame, Batches, TypeChannels, channelVars
  <2>4. TypeHost'
    <3>1. /\ host' = "loop" /\ frame' = NoFrame /\ ctlDone' = FALSE /\ dataDone' = FALSE
          /\ unflushed' = FALSE
      BY <1>25 DEF Restart
    <3> QED BY <3>1, HostFrames DEF TypeHost
  <2>5. TypeIngest'
    BY <1>t, <1>25 DEF Restart, NoFrame, Batches, TypeIngest, ingestVars
  <2>6. TypeWal'
    BY <1>t, <1>25 DEF Restart, NoFrame, Batches, TypeWal, walVars, boundVars
  <2> QED BY <2>1, <2>2, <2>3, <2>4, <2>5, <2>6 DEF TypeOK, TypePlugin, TypeClient,
      TypeChannels, TypeHost, TypeIngest, TypeWal
<1>26. CASE UNCHANGED vars
  BY <1>26 DEF TypeOK, vars, pluginVars, clientVars, channelVars, hostVars, ingestVars,
      walVars, boundVars
<1> QED
  BY StepCases, <1>1, <1>2, <1>3, <1>4, <1>5, <1>6, <1>7, <1>8, <1>9, <1>10, <1>11, <1>12,
      <1>13, <1>14, <1>15, <1>16, <1>17, <1>18, <1>19, <1>20, <1>21, <1>22, <1>23, <1>24,
          <1>25, <1>26

\* Covered only looks at the WAL, which only grows.
LEMMA CoveredGrows ==
    ASSUME Safe \subseteq Safe', NEW n
    PROVE  Covered(n) => Covered(n)'
BY DEF Covered, Safe

\* The inductive invariant is preserved by every action.
LEMMA InvStep == TypeOK /\ TypeOK' /\ IInv /\ [Next]_vars => IInv'
<1> SUFFICES ASSUME TypeOK, TypeOK', IInv, [Next]_vars PROVE IInv'
  OBVIOUS
<1> USE SessionAssumption
<1>1. CASE Submit
  <2>1. AnswersSafe'
    BY <1>1 DEF Submit, Frame, clientVars, channelVars, ingestVars, walVars, IInv, AnswersSafe,
        Safe, TypeOK
  <2>2. BelowNextSafe'
    BY <1>1 DEF Submit, Frame, pluginVars, clientVars, walVars, IInv, BelowNextSafe, Safe, TypeOK
  <2>3. CheckpointsSafe'
    BY <1>1 DEF Submit, Frame, channelVars, hostVars, walVars, IInv, CheckpointsSafe, Covered,
        TypeOK
  <2>4. CompletedSafe'
    BY <1>1 DEF Submit, Frame, pluginVars, channelVars, hostVars, walVars, IInv, CompletedSafe,
        Covered, TypeOK
  <2>6. FrameFitsHost'
    BY <1>1 DEF Submit, hostVars, IInv, FrameFitsHost, Covered, Safe
  <2> QED BY <2>1, <2>2, <2>3, <2>4, <2>6 DEF IInv
<1>2. CASE WaitPayloadAcks
  <2>1. AnswersSafe'
    BY <1>2 DEF WaitPayloadAcks, clientVars, channelVars, ingestVars, walVars, IInv,
        AnswersSafe, Safe, TypeOK
  <2>2. BelowNextSafe'
    <3>1. UNCHANGED <<next, pending, durable, slipped>>
      BY <1>2 DEF WaitPayloadAcks, walVars
    <3>2. CASE (\A b \in waiting : completed[b] = "ok") /\ waiting' = {}
      BY <3>1, <3>2 DEF IInv, AnswersSafe, BelowNextSafe, Safe, TypeOK
    <3>3. CASE plugin' = "gone" /\ waiting' = waiting
      BY <3>1, <3>3 DEF IInv, BelowNextSafe, Safe
    <3> QED BY <1>2, <3>2, <3>3 DEF WaitPayloadAcks
  <2>3. CheckpointsSafe'
    BY <1>2 DEF WaitPayloadAcks, channelVars, hostVars, walVars, IInv, CheckpointsSafe,
        Covered, TypeOK
  <2>4. CompletedSafe'
    <3>1. ~ctlDone /\ \A i \in 1..Len(control) : control[i] # "completed"
      BY <1>2 DEF WaitPayloadAcks, IInv, CompletedSafe
    <3>2. control' = control \/ control' = Append(control, "error")
      BY <1>2 DEF WaitPayloadAcks
    <3>3. \A i \in 1..Len(control') : control'[i] # "completed"
      <4>1. /\ control \in Seq({"completed", "error"})
            /\ "error" \in {"completed", "error"} /\ "error" # "completed"
        BY DEF TypeOK
      <4>2. \A i \in 1..Len(Append(control, "error")) : Append(control, "error")[i] # "completed"
        BY <3>1, <4>1, AddLast
      <4> QED BY <3>1, <3>2, <4>2
    <3>4. ctlDone' = ctlDone
      BY <1>2 DEF WaitPayloadAcks, hostVars
    <3> QED BY <3>1, <3>3, <3>4 DEF CompletedSafe
  <2>6. FrameFitsHost'
    BY <1>2 DEF WaitPayloadAcks, hostVars, IInv, FrameFitsHost, Covered, Safe
  <2> QED BY <2>1, <2>2, <2>3, <2>4, <2>6 DEF IInv
<1>3. CASE StoreCheckpoint
  <2>1. AnswersSafe'
    BY <1>3 DEF StoreCheckpoint, Frame, clientVars, channelVars, ingestVars, walVars, IInv,
        AnswersSafe, Safe, TypeOK
  <2>2. BelowNextSafe'
    BY <1>3 DEF StoreCheckpoint, Frame, pluginVars, clientVars, walVars, IInv, BelowNextSafe,
        Safe, TypeOK
  <2>3. CheckpointsSafe'
    <3>1. Covered(next - 1)
      BY <1>3 DEF StoreCheckpoint, IInv, BelowNextSafe, Covered, Safe, TypeOK, Batches
    <3>2. /\ data' = Append(data, Frame("checkpoint", next - 1))
          /\ UNCHANGED <<durable, slipped, checkpoint, frame>>
      BY <1>3 DEF StoreCheckpoint, hostVars, walVars
    <3>3. \A n : Covered(n)' <=> Covered(n)
      BY <3>2 DEF Covered
    <3>4. \A i \in 1..Len(data) : data[i].kind = "checkpoint" => Covered(data[i].at)
      BY DEF IInv, CheckpointsSafe
    <3>5. ASSUME NEW i \in 1..Len(data'), data'[i].kind = "checkpoint"
          PROVE  Covered(data'[i].at)
      <4>1. Frame("checkpoint", next - 1) \in [kind : {"batch", "checkpoint"}, at : Batches]
        BY <1>3 DEF StoreCheckpoint, Frame, TypeOK, Batches
      <4>2. \/ i \in 1..Len(data) /\ data'[i] = data[i]
            \/ data'[i] = Frame("checkpoint", next - 1)
        <5> DEFINE f == Frame("checkpoint", next - 1)
        <5>1. data \in Seq([kind : {"batch", "checkpoint"}, at : Batches])
          BY DEF TypeOK
        <5>2. i \in 1..Len(Append(data, f)) /\ data' = Append(data, f)
          BY <3>2, <3>5
        <5>3. (i \in 1..Len(data) /\ Append(data, f)[i] = data[i]) \/ Append(data, f)[i] = f
          BY <4>1, <5>1, <5>2, AddLast DEF f
        <5> QED BY <5>2, <5>3 DEF f
      <4>3. Frame("checkpoint", next - 1).at = next - 1
        BY DEF Frame
      <4> QED BY <3>1, <3>4, <3>5, <4>2, <4>3
    <3>6. \A i \in 1..Len(data') : data'[i].kind = "checkpoint" => Covered(data[i].at)'
      BY <3>2, <3>5 DEF Covered
    <3> QED BY <3>2, <3>3, <3>6 DEF IInv, CheckpointsSafe
  <2>4. CompletedSafe'
    BY <1>3 DEF StoreCheckpoint, Frame, pluginVars, channelVars, hostVars, walVars, IInv,
        CompletedSafe, Covered, TypeOK
  <2>6. FrameFitsHost'
    BY <1>3 DEF StoreCheckpoint, hostVars, IInv, FrameFitsHost, Covered, Safe
  <2> QED BY <2>1, <2>2, <2>3, <2>4, <2>6 DEF IInv
<1>4. CASE SyncReturns
  <2>2. BelowNextSafe'
    BY <1>4 DEF SyncReturns, pluginVars, clientVars, walVars, IInv, BelowNextSafe, Safe, TypeOK
  <2>4. CompletedSafe'
    BY <1>4 DEF SyncReturns, pluginVars, channelVars, hostVars, walVars, IInv, CompletedSafe,
        Covered, TypeOK
  <2>6. AnswersSafe' /\ CheckpointsSafe' /\ FrameFitsHost'
    BY <1>4 DEF SyncReturns, clientVars, channelVars, hostVars, ingestVars, walVars, IInv,
        AnswersSafe, CheckpointsSafe, FrameFitsHost, Covered, Safe
  <2> QED BY <2>2, <2>4, <2>6 DEF IInv
<1>5. CASE DrainPayloadAcks
  <2>1. AnswersSafe'
    BY <1>5 DEF DrainPayloadAcks, clientVars, channelVars, ingestVars, walVars, IInv,
        AnswersSafe, Safe, TypeOK
  <2>2. BelowNextSafe'
    BY <1>5 DEF DrainPayloadAcks, pluginVars, clientVars, walVars, IInv, BelowNextSafe, Safe,
        TypeOK
  <2>3. CheckpointsSafe'
    BY <1>5 DEF DrainPayloadAcks, channelVars, hostVars, walVars, IInv, CheckpointsSafe,
        Covered, TypeOK
  <2>4. CompletedSafe'
    <3>1. /\ plugin = "drain" /\ plugin' = "gone" /\ pending = {}
          /\ UNCHANGED <<next, durable, slipped, ctlDone>>
      BY <1>5 DEF DrainPayloadAcks, hostVars, walVars
    <3>2. ~ctlDone /\ \A i \in 1..Len(control) : control[i] # "completed"
      BY <3>1 DEF IInv, CompletedSafe
    <3>3. CASE \A b \in Batches : completed[b] # "err"
      <4>1. \A b \in waiting : completed[b] = "ok"
        BY <3>1, <3>3 DEF IInv, BelowNextSafe, TypeOK
      <4>2. \A b \in Batches : b < next => b \in Safe
        BY <4>1 DEF IInv, BelowNextSafe, AnswersSafe, TypeOK
      <4>3. Covered(next - 1)
        BY <4>2 DEF Covered, Safe, Batches, TypeOK
      <4> QED BY <3>1, <4>3 DEF CompletedSafe, Covered
    <3>4. CASE \E b \in Batches : completed[b] = "err"
      <4>1. control' = control
        BY <1>5, <3>4 DEF DrainPayloadAcks
      <4> QED BY <3>1, <3>2, <4>1 DEF CompletedSafe
    <3> QED BY <3>3, <3>4
  <2>6. FrameFitsHost'
    BY <1>5 DEF DrainPayloadAcks, hostVars, IInv, FrameFitsHost, Covered, Safe
  <2> QED BY <2>1, <2>2, <2>3, <2>4, <2>6 DEF IInv
<1>6. CASE ResolveAck
  <2>1. AnswersSafe'
    <3> DEFINE ack == Head(answers)
    <3>1. /\ answers # <<>> /\ answers' = Tail(answers)
          /\ completed' = [completed EXCEPT ![ack.at] = ack.result]
          /\ UNCHANGED <<acks, durable, slipped>>
      BY <1>6 DEF ResolveAck, ingestVars, walVars
    <3>2. answers \in Seq([at : Batches, result : {"ok", "err"}])
      BY DEF TypeOK
    <3>3. /\ 1 \in 1..Len(answers) /\ ack = answers[1]
          /\ \A i \in 1..Len(answers') : i + 1 \in 1..Len(answers) /\ answers'[i] = answers[i + 1]
      BY <3>1, <3>2, TakeFirst
    <3>4. \A i \in 1..Len(answers) : answers[i].result = "ok" => answers[i].at \in Safe
      BY DEF IInv, AnswersSafe
    <3>5. ack.result = "ok" => ack.at \in Safe
      BY <3>3, <3>4
    <3> HIDE DEF ack
    <3>6. \A i \in 1..Len(answers') : answers'[i].result = "ok" => answers'[i].at \in Safe
      BY <3>3, <3>4
    <3>7. \A b \in Batches : completed'[b] = "ok" => b \in Safe
      BY <3>1, <3>5 DEF IInv, AnswersSafe, TypeOK
    <3> QED BY <3>1, <3>6, <3>7 DEF IInv, AnswersSafe, Safe
  <2>2. BelowNextSafe'
    <3> DEFINE ack == Head(answers)
    <3>1. ack \in [at : Batches, result : {"ok", "err"}]
      BY <1>6, TakeFirst DEF ResolveAck, TypeOK
    <3>2. /\ pending' = pending \ {ack.at}
          /\ completed' = [completed EXCEPT ![ack.at] = ack.result]
          /\ UNCHANGED <<plugin, next, waiting, durable, slipped>>
      BY <1>6 DEF ResolveAck, pluginVars, walVars
    <3>3. ack.at \in Batches /\ ack.result # "none"
      BY <3>1
    <3> HIDE DEF ack
    <3>4. completed' \in [Batches -> {"none", "ok", "err"}] /\ waiting \subseteq Batches
      BY DEF TypeOK
    <3>5. ASSUME NEW b \in waiting, b \in pending \/ completed[b] # "none"
          PROVE  b \in pending' \/ completed'[b] # "none"
      BY <3>2, <3>3, <3>4, <3>5 DEF TypeOK
    <3> QED BY <3>2, <3>5 DEF IInv, BelowNextSafe, Safe
  <2>3. CheckpointsSafe'
    BY <1>6 DEF ResolveAck, channelVars, hostVars, walVars, IInv, CheckpointsSafe, Covered, TypeOK
  <2>4. CompletedSafe'
    BY <1>6 DEF ResolveAck, pluginVars, channelVars, hostVars, walVars, IInv, CompletedSafe,
        Covered, TypeOK
  <2>6. FrameFitsHost'
    BY <1>6 DEF ResolveAck, hostVars, IInv, FrameFitsHost, Covered, Safe
  <2> QED BY <2>1, <2>2, <2>3, <2>4, <2>6 DEF IInv
<1>7. CASE TakeControlFrame
  <2>1. AnswersSafe'
    BY <1>7 DEF TakeControlFrame, HostErr, Frame, clientVars, channelVars, ingestVars, walVars,
        IInv, AnswersSafe, Safe, TypeOK
  <2>2. BelowNextSafe'
    BY <1>7 DEF TakeControlFrame, HostErr, Frame, pluginVars, clientVars, walVars, IInv,
        BelowNextSafe, Safe, TypeOK
  <2>3. CheckpointsSafe'
    BY <1>7 DEF TakeControlFrame, HostErr, Frame, channelVars, hostVars, walVars, IInv,
        CheckpointsSafe, Covered, TypeOK
  <2>4. CompletedSafe'
    <3>1. /\ control # <<>> /\ control' = Tail(control)
          /\ UNCHANGED <<next, durable, slipped>>
          /\ plugin' = plugin \/ plugin' = "gone"
          /\ ctlDone' => ctlDone \/ Head(control) = "completed"
      BY <1>7 DEF TakeControlFrame, HostErr, pluginVars, walVars
    <3>2. control \in Seq({"completed", "error"})
      BY DEF TypeOK
    <3>3. \A i \in 1..Len(control') : i + 1 \in 1..Len(control) /\ control'[i] = control[i + 1]
      BY <3>1, <3>2
    <3>4. 1 \in 1..Len(control) /\ Head(control) = control[1]
      BY <3>1, <3>2
    <3>5. CASE ctlDone' \/ \E i \in 1..Len(control') : control'[i] = "completed"
      <4>1. ctlDone \/ \E i \in 1..Len(control) : control[i] = "completed"
        BY <3>1, <3>3, <3>4, <3>5
      <4> QED BY <3>1, <4>1 DEF IInv, CompletedSafe, Covered
    <3> QED BY <3>5 DEF CompletedSafe
  <2>5. FrameFitsHost'
    BY <1>7 DEF TakeControlFrame, HostErr, Frame, hostVars, IInv, FrameFitsHost
  <2> QED BY <2>1, <2>2, <2>3, <2>4, <2>5 DEF IInv
<1>8. CASE ControlEof
  <2>2. BelowNextSafe'
    BY <1>8 DEF ControlEof, HostErr, pluginVars, clientVars, walVars, IInv, BelowNextSafe,
        Safe, TypeOK
  <2>3. CheckpointsSafe'
    BY <1>8 DEF ControlEof, HostErr, channelVars, hostVars, walVars, IInv, CheckpointsSafe,
        Covered, TypeOK
  <2>4. CompletedSafe'
    BY <1>8 DEF ControlEof, HostErr, pluginVars, channelVars, hostVars, walVars, IInv,
        CompletedSafe, Covered, TypeOK
  <2>5. FrameFitsHost'
    BY <1>8 DEF ControlEof, HostErr, hostVars, IInv, FrameFitsHost
  <2>6. AnswersSafe'
    BY <1>8 DEF ControlEof, clientVars, channelVars, ingestVars, walVars, IInv, AnswersSafe,
        Covered, Safe
  <2> QED BY <2>2, <2>3, <2>4, <2>5, <2>6 DEF IInv
<1>9. CASE ForwardAck
  <2>1. AnswersSafe'
    <3>1. PICK ack \in acks : /\ acks' = acks \ {ack}
                              /\ answers' = Append(answers, ack) \/ answers' = answers
      BY <1>9 DEF ForwardAck
    <3>2. UNCHANGED <<completed, durable, slipped>>
      BY <1>9 DEF ForwardAck, clientVars, walVars
    <3>3. ack.result = "ok" => ack.at \in Safe
      BY <3>1 DEF IInv, AnswersSafe
    <3>4. \A i \in 1..Len(answers') : answers'[i].result = "ok" => answers'[i].at \in Safe
      <4>1. ack \in [at : Batches, result : {"ok", "err"}]
        BY <3>1 DEF TypeOK
      <4>2. \A i \in 1..Len(answers') : \/ i \in 1..Len(answers) /\ answers'[i] = answers[i]
                                       \/ answers'[i] = ack
        <5>1. answers \in Seq([at : Batches, result : {"ok", "err"}])
          BY DEF TypeOK
        <5>2. \A i \in 1..Len(Append(answers, ack)) :
                 \/ i \in 1..Len(answers) /\ Append(answers, ack)[i] = answers[i]
                 \/ Append(answers, ack)[i] = ack
          BY <4>1, <5>1, AddLast
        <5> QED BY <3>1, <5>2
      <4>3. \A i \in 1..Len(answers) : answers[i].result = "ok" => answers[i].at \in Safe
        BY DEF IInv, AnswersSafe
      <4> QED BY <3>3, <4>2, <4>3
    <3> QED BY <3>1, <3>2, <3>4 DEF IInv, AnswersSafe, Safe
  <2>2. BelowNextSafe'
    BY <1>9 DEF ForwardAck, HostErr, pluginVars, clientVars, walVars, IInv, BelowNextSafe,
        Safe, TypeOK
  <2>3. CheckpointsSafe'
    BY <1>9 DEF ForwardAck, HostErr, channelVars, hostVars, walVars, IInv, CheckpointsSafe,
        Covered, TypeOK
  <2>4. CompletedSafe'
    BY <1>9 DEF ForwardAck, HostErr, pluginVars, channelVars, hostVars, walVars, IInv,
        CompletedSafe, Covered, TypeOK
  <2>5. FrameFitsHost'
    BY <1>9 DEF ForwardAck, HostErr, hostVars, IInv, FrameFitsHost
  <2> QED BY <2>1, <2>2, <2>3, <2>4, <2>5 DEF IInv
<1>10. CASE TakeDataFrame
  <2>1. AnswersSafe'
    BY <1>10 DEF TakeDataFrame, clientVars, channelVars, ingestVars, walVars, IInv,
        AnswersSafe, Safe, TypeOK
  <2>3. CheckpointsSafe'
    <3>1. /\ data # <<>> /\ frame' = Head(data) /\ data' = Tail(data)
          /\ UNCHANGED <<durable, slipped, checkpoint>>
      BY <1>10 DEF TakeDataFrame, walVars
    <3>2. \A n : Covered(n)' <=> Covered(n)
      BY <3>1 DEF Covered
    <3>3. /\ \A i \in 1..Len(data') : i + 1 \in 1..Len(data) /\ data'[i] = data[i + 1]
          /\ 1 \in 1..Len(data) /\ Head(data) = data[1]
      BY <3>1 DEF TypeOK
    <3>4. \A i \in 1..Len(data) : data[i].kind = "checkpoint" => Covered(data[i].at)
      BY DEF IInv, CheckpointsSafe
    <3>5. \A i \in 1..Len(data') : data'[i].kind = "checkpoint" => Covered(data[i].at)'
      BY <3>1, <3>3, <3>4 DEF Covered
    <3>6. frame'.kind = "checkpoint" => Covered(frame.at)'
      BY <3>1, <3>3, <3>4 DEF Covered
    <3> QED BY <3>1, <3>5, <3>6 DEF IInv, CheckpointsSafe, Covered
  <2>4. CompletedSafe'
    BY <1>10 DEF TakeDataFrame, pluginVars, channelVars, hostVars, walVars, IInv,
        CompletedSafe, Covered, TypeOK
  <2>5. FrameFitsHost'
    <3>1. /\ data # <<>> /\ frame' = Head(data) /\ ctlDone' = ctlDone
          /\ \/ host' = "throttle"
             \/ host' = "drain" /\ Head(data).kind = "checkpoint"
      BY <1>10 DEF TakeDataFrame
    <3>2. Head(data) \in [kind : {"batch", "checkpoint"}, at : Batches]
      BY <3>1, TakeFirst DEF TypeOK
    <3> QED BY <3>1, <3>2 DEF FrameFitsHost
  <2>6. BelowNextSafe'
    BY <1>10 DEF TakeDataFrame, pluginVars, clientVars, walVars, IInv, BelowNextSafe, Covered,
        Safe
  <2> QED BY <2>1, <2>3, <2>4, <2>5, <2>6 DEF IInv
<1>11. CASE ThrottleJoins
  <2>1. AnswersSafe'
    BY <1>11 DEF ThrottleJoins, HostErr, CloseRequest, Ack, Finished, clientVars, channelVars,
        ingestVars, walVars, IInv, AnswersSafe, Safe, TypeOK
  <2>2. BelowNextSafe'
    BY <1>11 DEF ThrottleJoins, HostErr, CloseRequest, Ack, Finished, pluginVars, clientVars,
        walVars, IInv, BelowNextSafe, Safe, TypeOK
  <2>3. CheckpointsSafe'
    BY <1>11 DEF ThrottleJoins, HostErr, CloseRequest, Ack, Finished, channelVars, hostVars,
        walVars, IInv, CheckpointsSafe, Covered, TypeOK
  <2>4. CompletedSafe'
    BY <1>11 DEF ThrottleJoins, HostErr, CloseRequest, Ack, Finished, pluginVars, channelVars,
        hostVars, walVars, IInv, CompletedSafe, Covered, TypeOK
  <2>5. FrameFitsHost'
    BY <1>11 DEF ThrottleJoins, HostErr, CloseRequest, Ack, Finished, hostVars, IInv,
        FrameFitsHost
  <2> QED BY <2>1, <2>2, <2>3, <2>4, <2>5 DEF IInv
<1>12. CASE SpawnTask
  <2>1. AnswersSafe'
    BY <1>12 DEF SpawnTask, NoFrame, clientVars, channelVars, ingestVars, walVars, IInv,
        AnswersSafe, Safe, TypeOK
  <2>3. CheckpointsSafe'
    BY <1>12 DEF SpawnTask, NoFrame, channelVars, hostVars, walVars, IInv, CheckpointsSafe,
        Covered, TypeOK
  <2>4. CompletedSafe'
    BY <1>12 DEF SpawnTask, NoFrame, pluginVars, channelVars, hostVars, walVars, IInv,
        CompletedSafe, Covered, TypeOK
  <2>5. FrameFitsHost'
    BY <1>12 DEF SpawnTask, NoFrame, hostVars, IInv, FrameFitsHost
  <2>6. BelowNextSafe'
    BY <1>12 DEF SpawnTask, pluginVars, clientVars, walVars, IInv, BelowNextSafe, Covered, Safe
  <2> QED BY <2>1, <2>3, <2>4, <2>5, <2>6 DEF IInv
<1>13. CASE DrainJoins
  <2>1. AnswersSafe'
    BY <1>13 DEF DrainJoins, HostErr, Finished, clientVars, channelVars, ingestVars, walVars,
        IInv, AnswersSafe, Safe, TypeOK
  <2>2. BelowNextSafe'
    BY <1>13 DEF DrainJoins, HostErr, Finished, pluginVars, clientVars, walVars, IInv,
        BelowNextSafe, Safe, TypeOK
  <2>3. CheckpointsSafe'
    BY <1>13 DEF DrainJoins, HostErr, Finished, channelVars, hostVars, walVars, IInv,
        CheckpointsSafe, Covered, TypeOK
  <2>4. CompletedSafe'
    BY <1>13 DEF DrainJoins, HostErr, Finished, pluginVars, channelVars, hostVars, walVars,
        IInv, CompletedSafe, Covered, TypeOK
  <2>5. FrameFitsHost'
    BY <1>13 DEF DrainJoins, HostErr, Finished, hostVars, IInv, FrameFitsHost
  <2> QED BY <2>1, <2>2, <2>3, <2>4, <2>5 DEF IInv
<1>14. CASE DrainDone
  <2>3. CheckpointsSafe'
    BY <1>14 DEF DrainDone, NoFrame, channelVars, hostVars, walVars, IInv, CheckpointsSafe,
        Covered, TypeOK
  <2>4. CompletedSafe'
    BY <1>14 DEF DrainDone, NoFrame, pluginVars, channelVars, hostVars, walVars, IInv,
        CompletedSafe, Covered, TypeOK
  <2>5. FrameFitsHost'
    BY <1>14 DEF DrainDone, NoFrame, hostVars, IInv, FrameFitsHost
  <2>6. AnswersSafe' /\ BelowNextSafe'
    BY <1>14 DEF DrainDone, pluginVars, clientVars, channelVars, ingestVars, walVars, IInv,
        AnswersSafe, BelowNextSafe, Covered, Safe
  <2> QED BY <2>3, <2>4, <2>5, <2>6 DEF IInv
<1>15. CASE Flush
  <2>1. AnswersSafe'
    BY <1>15 DEF Flush, HostErr, clientVars, channelVars, ingestVars, walVars, IInv,
        AnswersSafe, Safe, TypeOK
  <2>2. BelowNextSafe'
    BY <1>15 DEF Flush, HostErr, pluginVars, clientVars, walVars, IInv, BelowNextSafe, Safe,
        TypeOK
  <2>3. CheckpointsSafe'
    BY <1>15 DEF Flush, HostErr, channelVars, hostVars, walVars, IInv, CheckpointsSafe,
        Covered, TypeOK
  <2>4. CompletedSafe'
    BY <1>15 DEF Flush, HostErr, pluginVars, channelVars, hostVars, walVars, IInv,
        CompletedSafe, Covered, TypeOK
  <2>5. FrameFitsHost'
    BY <1>15 DEF Flush, HostErr, hostVars, IInv, FrameFitsHost
  <2> QED BY <2>1, <2>2, <2>3, <2>4, <2>5 DEF IInv
<1>16. CASE PersistCheckpoint
  <2>1. AnswersSafe'
    BY <1>16 DEF PersistCheckpoint, HostErr, NoFrame, clientVars, channelVars, ingestVars,
        walVars, IInv, AnswersSafe, Safe, TypeOK
  <2>2. BelowNextSafe'
    BY <1>16 DEF PersistCheckpoint, HostErr, NoFrame, pluginVars, clientVars, walVars, IInv,
        BelowNextSafe, Safe, TypeOK
  <2>3. CheckpointsSafe'
    <3>1. /\ frame' = frame \/ frame' = NoFrame
          /\ checkpoint' = checkpoint \/ checkpoint' = frame.at
          /\ UNCHANGED <<data, durable, slipped>> /\ host = "persist"
      BY <1>16 DEF PersistCheckpoint, HostErr, hostVars, channelVars
    <3>2. Covered(frame.at) /\ Covered(checkpoint)
      BY <3>1 DEF IInv, CheckpointsSafe, FrameFitsHost
    <3> QED BY <3>1, <3>2 DEF IInv, CheckpointsSafe, Covered, NoFrame
  <2>4. CompletedSafe'
    BY <1>16 DEF PersistCheckpoint, HostErr, NoFrame, pluginVars, channelVars, hostVars,
        walVars, IInv, CompletedSafe, Covered, TypeOK
  <2>5. FrameFitsHost'
    BY <1>16 DEF PersistCheckpoint, HostErr, NoFrame, hostVars, IInv, FrameFitsHost
  <2> QED BY <2>1, <2>2, <2>3, <2>4, <2>5 DEF IInv
<1>17. CASE DataEof
  <2>3. CheckpointsSafe'
    BY <1>17 DEF DataEof, channelVars, hostVars, walVars, IInv, CheckpointsSafe, Covered, TypeOK
  <2>4. CompletedSafe'
    BY <1>17 DEF DataEof, pluginVars, channelVars, hostVars, walVars, IInv, CompletedSafe,
        Covered, TypeOK
  <2>5. FrameFitsHost'
    BY <1>17 DEF DataEof, hostVars, IInv, FrameFitsHost
  <2>6. AnswersSafe' /\ BelowNextSafe'
    BY <1>17 DEF DataEof, pluginVars, clientVars, channelVars, ingestVars, walVars, IInv,
        AnswersSafe, BelowNextSafe, Covered, Safe
  <2> QED BY <2>3, <2>4, <2>5, <2>6 DEF IInv
<1>18. CASE Finish
  <2>3. CheckpointsSafe'
    BY <1>18 DEF Finish, Frame, channelVars, hostVars, walVars, IInv, CheckpointsSafe, Covered,
        TypeOK
  <2>4. CompletedSafe'
    BY <1>18 DEF Finish, Frame, pluginVars, channelVars, hostVars, walVars, IInv,
        CompletedSafe, Covered, TypeOK
  <2>5. FrameFitsHost'
    BY <1>18 DEF Finish, Frame, hostVars, IInv, FrameFitsHost
  <2>6. AnswersSafe' /\ BelowNextSafe'
    BY <1>18 DEF Finish, pluginVars, clientVars, channelVars, ingestVars, walVars, IInv,
        AnswersSafe, BelowNextSafe, Covered, Safe
  <2> QED BY <2>3, <2>4, <2>5, <2>6 DEF IInv
<1>19. ASSUME NEW b \in Batches, RunTask(b) PROVE IInv'
  <2>1. AnswersSafe'
    BY <1>19 DEF RunTask, CloseRequest, Ack, clientVars, channelVars, ingestVars, walVars,
        IInv, AnswersSafe, Safe, TypeOK
  <2>2. BelowNextSafe'
    BY <1>19 DEF RunTask, CloseRequest, Ack, pluginVars, clientVars, walVars, IInv,
        BelowNextSafe, Safe, TypeOK
  <2>3. CheckpointsSafe'
    BY <1>19 DEF RunTask, CloseRequest, Ack, channelVars, hostVars, walVars, IInv,
        CheckpointsSafe, Covered, TypeOK
  <2>4. CompletedSafe'
    BY <1>19 DEF RunTask, CloseRequest, Ack, pluginVars, channelVars, hostVars, walVars, IInv,
        CompletedSafe, Covered, TypeOK
  <2>6. FrameFitsHost'
    BY <1>19 DEF RunTask, hostVars, IInv, FrameFitsHost, Covered, Safe
  <2> QED BY <2>1, <2>2, <2>3, <2>4, <2>6 DEF IInv
<1>20. ASSUME NEW b \in Batches, UnitPersists(b) PROVE IInv'
  <2>1. AnswersSafe'
    BY <1>20 DEF UnitPersists, CloseRequest, Ack, clientVars, channelVars, ingestVars, walVars,
        IInv, AnswersSafe, Safe, TypeOK
  <2>2. BelowNextSafe'
    BY <1>20 DEF UnitPersists, CloseRequest, Ack, pluginVars, clientVars, walVars, IInv,
        BelowNextSafe, Safe, TypeOK
  <2>3. CheckpointsSafe'
    BY <1>20 DEF UnitPersists, CloseRequest, Ack, channelVars, hostVars, walVars, IInv,
        CheckpointsSafe, Covered, TypeOK
  <2>4. CompletedSafe'
    BY <1>20 DEF UnitPersists, CloseRequest, Ack, pluginVars, channelVars, hostVars, walVars,
        IInv, CompletedSafe, Covered, TypeOK
  <2>6. FrameFitsHost'
    BY <1>20 DEF UnitPersists, hostVars, IInv, FrameFitsHost, Covered, Safe
  <2> QED BY <2>1, <2>2, <2>3, <2>4, <2>6 DEF IInv
<1>21. ASSUME NEW b \in Batches, UnitFails(b) PROVE IInv'
  <2>1. AnswersSafe'
    <3>1. /\ durable' = durable /\ slipped \subseteq slipped'
          /\ UNCHANGED <<answers, completed>>
      BY <1>21 DEF UnitFails, clientVars, channelVars
    <3>2. Safe \subseteq Safe'
      BY <3>1 DEF Safe
    <3>3. ASSUME NEW a \in acks', a \notin acks
          PROVE  a = Ack(b, "err") \/ (a = Ack(b, "ok") /\ b \in Safe')
      <4>1. CASE CloseRequest(b, "err")
        BY <3>3, <4>1 DEF CloseRequest
      <4>2. CASE CloseRequest(b, "ok") /\ slipped' = slipped \cup {b}
        BY <3>3, <4>2 DEF CloseRequest, Safe
      <4> QED BY <1>21, <4>1, <4>2 DEF UnitFails
    <3>4. Ack(b, "err").result = "err" /\ Ack(b, "ok").at = b
      BY DEF Ack
    <3>5. \A a \in acks' : a.result = "ok" => a.at \in Safe'
      BY <3>2, <3>3, <3>4 DEF IInv, AnswersSafe
    <3> QED BY <3>1, <3>2, <3>5 DEF IInv, AnswersSafe
  <2>2. BelowNextSafe'
    BY <1>21 DEF UnitFails, CloseRequest, Ack, pluginVars, clientVars, walVars, IInv,
        BelowNextSafe, Safe, TypeOK
  <2>3. CheckpointsSafe'
    BY <1>21 DEF UnitFails, CloseRequest, Ack, channelVars, hostVars, walVars, IInv,
        CheckpointsSafe, Covered, TypeOK
  <2>4. CompletedSafe'
    BY <1>21 DEF UnitFails, CloseRequest, Ack, pluginVars, channelVars, hostVars, walVars,
        IInv, CompletedSafe, Covered, TypeOK
  <2>6. FrameFitsHost'
    BY <1>21 DEF UnitFails, hostVars, IInv, FrameFitsHost, Covered, Safe
  <2> QED BY <2>1, <2>2, <2>3, <2>4, <2>6 DEF IInv
<1>22. CASE OnceIdle
  <2>2. BelowNextSafe'
    BY <1>22 DEF OnceIdle, pluginVars, clientVars, walVars, IInv, BelowNextSafe, Safe, TypeOK
  <2>4. CompletedSafe'
    BY <1>22 DEF OnceIdle, pluginVars, channelVars, hostVars, walVars, IInv, CompletedSafe,
        Covered, TypeOK
  <2>6. AnswersSafe' /\ CheckpointsSafe' /\ FrameFitsHost'
    BY <1>22 DEF OnceIdle, clientVars, channelVars, hostVars, ingestVars, walVars, IInv,
        AnswersSafe, CheckpointsSafe, FrameFitsHost, Covered, Safe
  <2> QED BY <2>2, <2>4, <2>6 DEF IInv
<1>23. CASE SyncErrs
  <2>1. AnswersSafe'
    BY <1>23 DEF SyncErrs, clientVars, channelVars, ingestVars, walVars, IInv, AnswersSafe,
        Safe, TypeOK
  <2>2. BelowNextSafe'
    BY <1>23 DEF SyncErrs, pluginVars, clientVars, walVars, IInv, BelowNextSafe, Safe, TypeOK
  <2>3. CheckpointsSafe'
    BY <1>23 DEF SyncErrs, channelVars, hostVars, walVars, IInv, CheckpointsSafe, Covered, TypeOK
  <2>4. CompletedSafe'
    BY <1>23 DEF SyncErrs, pluginVars, channelVars, hostVars, walVars, IInv, CompletedSafe,
        Covered, TypeOK
  <2>6. FrameFitsHost'
    BY <1>23 DEF SyncErrs, hostVars, IInv, FrameFitsHost, Covered, Safe
  <2> QED BY <2>1, <2>2, <2>3, <2>4, <2>6 DEF IInv
<1>24. CASE PluginDies
  <2>1. AnswersSafe'
    BY <1>24 DEF PluginDies, clientVars, channelVars, ingestVars, walVars, IInv, AnswersSafe,
        Safe, TypeOK
  <2>2. BelowNextSafe'
    BY <1>24 DEF PluginDies, pluginVars, clientVars, walVars, IInv, BelowNextSafe, Safe, TypeOK
  <2>3. CheckpointsSafe'
    BY <1>24 DEF PluginDies, channelVars, hostVars, walVars, IInv, CheckpointsSafe, Covered,
        TypeOK
  <2>4. CompletedSafe'
    BY <1>24 DEF PluginDies, pluginVars, channelVars, hostVars, walVars, IInv, CompletedSafe,
        Covered, TypeOK
  <2>6. FrameFitsHost'
    BY <1>24 DEF PluginDies, hostVars, IInv, FrameFitsHost, Covered, Safe
  <2> QED BY <2>1, <2>2, <2>3, <2>4, <2>6 DEF IInv
<1>25. CASE Restart
  <2>1. AnswersSafe'
    BY <1>25 DEF Restart, NoFrame, clientVars, channelVars, ingestVars, walVars, IInv,
        AnswersSafe, Safe, TypeOK
  <2>2. BelowNextSafe'
    <3>1. /\ next' = checkpoint + 1 /\ waiting' = {}
          /\ UNCHANGED <<durable, slipped>>
      BY <1>25 DEF Restart, walVars
    <3>2. \A b \in Batches : b < next' => b \in Safe
      BY <3>1 DEF IInv, CheckpointsSafe, Covered, Safe, Batches, TypeOK
    <3> QED BY <3>1, <3>2 DEF BelowNextSafe, Safe
  <2>3. CheckpointsSafe'
    BY <1>25 DEF Restart, NoFrame, channelVars, hostVars, walVars, IInv, CheckpointsSafe,
        Covered, TypeOK
  <2>4. CompletedSafe'
    BY <1>25 DEF Restart, NoFrame, pluginVars, channelVars, hostVars, walVars, IInv,
        CompletedSafe, Covered, TypeOK
  <2>5. FrameFitsHost'
    BY <1>25 DEF Restart, NoFrame, hostVars, IInv, FrameFitsHost
  <2> QED BY <2>1, <2>2, <2>3, <2>4, <2>5 DEF IInv
<1>26. CASE UNCHANGED vars
  BY <1>26 DEF IInv, AnswersSafe, BelowNextSafe, CheckpointsSafe, CompletedSafe, FrameFitsHost,
      Covered, Safe, vars, pluginVars, clientVars, channelVars, hostVars, ingestVars, walVars,
          boundVars
<1> QED
  BY StepCases, <1>1, <1>2, <1>3, <1>4, <1>5, <1>6, <1>7, <1>8, <1>9, <1>10, <1>11, <1>12,
      <1>13, <1>14, <1>15, <1>16, <1>17, <1>18, <1>19, <1>20, <1>21, <1>22, <1>23, <1>24,
          <1>25, <1>26

----------------------------------------------------------------------------
(* The order of the checkpoints                                            *)

\* Where the elements of a channel are after one is added.
LEMMA AddedIsLast ==
    ASSUME NEW S, NEW q \in Seq(S), NEW e \in S
    PROVE  /\ Len(Append(q, e)) = Len(q) + 1 /\ Len(q) \in Nat
           /\ \A i \in 1..Len(q) : i \in 1..Len(Append(q, e)) /\ Append(q, e)[i] = q[i]
           /\ Append(q, e)[Len(q) + 1] = e
           /\ \A i \in 1..Len(Append(q, e)) : i \in 1..Len(q) \/ i = Len(q) + 1
OBVIOUS

\* The frames of a channel are of its type.
LEMMA FramesOf ==
    ASSUME NEW S, NEW q \in Seq(S)
    PROVE  Len(q) \in Nat /\ \A i \in 1..Len(q) : q[i] \in S
OBVIOUS

\* The order of the checkpoints is not about frames of other kinds.
LEMMA OrderKept ==
    ASSUME CheckpointsInOrder, LastOnItsWay, UNCHANGED <<stored, data, checkpoint>>,
           \/ frame' = frame
           \/ frame.kind # "checkpoint" /\ frame'.kind # "checkpoint"
    PROVE  CheckpointsInOrder' /\ LastOnItsWay'
BY DEF CheckpointsInOrder, LastOnItsWay

\* Steps that leave the frames alone: the host stays where it is or fails,
\* and a plugin that is gone does not come back.
LEMMA QuietStep ==
    ASSUME OrderInv, UNCHANGED <<stored, data, frame, checkpoint, dataDone>>,
           host' \in {host, "err"}, plugin = "gone" => plugin' = "gone"
    PROVE  OrderInv'
<1>1. CheckpointsInOrder' /\ LastOnItsWay'
  BY OrderKept DEF OrderInv
<1>2. ChannelsDone'
  BY DEF OrderInv, ChannelsDone
<1> QED BY <1>1, <1>2 DEF OrderInv

\* The order of the checkpoints is preserved by every action.
LEMMA OrderStep == TypeOK /\ TypeOK' /\ IInv /\ OrderInv /\ [Next]_vars => OrderInv'
<1> SUFFICES ASSUME TypeOK, TypeOK', IInv, OrderInv, [Next]_vars PROVE OrderInv'
  OBVIOUS
<1> USE SessionAssumption
<1> DEFINE DataFrames == [kind : {"batch", "checkpoint"}, at : Batches]
<1>t. /\ data \in Seq(DataFrames) /\ next \in Int /\ stored \in Int /\ checkpoint \in Int
      /\ frame.at \in Int /\ Len(data) \in Nat
      /\ \A i \in 1..Len(data) : data[i].at \in Int
  <2>1. /\ data \in Seq(DataFrames) /\ next \in Int /\ stored \in Int /\ checkpoint \in Int
    BY DEF TypeOK
  <2>2. frame.at \in 0..NumBatches
    BY DEF TypeOK
  <2>3. Len(data) \in Nat /\ \A i \in 1..Len(data) : data[i] \in DataFrames
    BY <2>1, FramesOf
  <2>4. \A f \in DataFrames : f.at \in Int
    BY DEF Batches
  <2> QED BY <2>1, <2>2, <2>3, <2>4
<1>1. CASE Submit
  <2> DEFINE f == Frame("batch", next)
  <2>1. /\ plugin = "run" /\ next \in Batches /\ data' = Append(data, f)
        /\ UNCHANGED <<stored, frame, checkpoint, host, dataDone, plugin>>
    BY <1>1 DEF Submit, hostVars, walVars
  <2>2. f \in DataFrames /\ f.kind = "batch"
    BY <2>1 DEF Frame
  <2> HIDE DEF f, DataFrames
  <2>3. /\ Len(data') = Len(data) + 1
        /\ \A i \in 1..Len(data) : i \in 1..Len(data') /\ data'[i] = data[i]
        /\ data'[Len(data) + 1] = f
        /\ \A i \in 1..Len(data') : i \in 1..Len(data) \/ i = Len(data) + 1
    BY <1>t, <2>1, <2>2, AddedIsLast
  <2>4. \A i \in 1..Len(data') : data'[i].kind = "checkpoint" =>
            i \in 1..Len(data) /\ data'[i] = data[i]
    BY <2>2, <2>3
  <2>5. CheckpointsInOrder'
    BY <2>1, <2>4 DEF OrderInv, CheckpointsInOrder
  <2>6. LastOnItsWay'
    BY <2>1, <2>3 DEF OrderInv, LastOnItsWay
  <2>7. ChannelsDone'
    BY <2>1 DEF OrderInv, ChannelsDone
  <2> QED BY <2>5, <2>6, <2>7 DEF OrderInv
<1>2. CASE StoreCheckpoint
  <2> DEFINE f == Frame("checkpoint", next - 1)
  <2>1. /\ plugin = "run" /\ stored < next - 1 /\ data' = Append(data, f) /\ stored' = next - 1
        /\ UNCHANGED <<frame, checkpoint, host, dataDone, plugin>>
    BY <1>2 DEF StoreCheckpoint, hostVars, walVars
  <2>2. f \in DataFrames /\ f.kind = "checkpoint" /\ f.at = next - 1
    BY <2>1 DEF Frame, TypeOK, Batches
  <2> HIDE DEF f, DataFrames
  <2>3. /\ Len(data') = Len(data) + 1
        /\ \A i \in 1..Len(data) : i \in 1..Len(data') /\ data'[i] = data[i]
        /\ data'[Len(data) + 1] = f
        /\ \A i \in 1..Len(data') : i \in 1..Len(data) \/ i = Len(data) + 1
    BY <1>t, <2>1, <2>2, AddedIsLast
  <2>4. /\ checkpoint <= stored
        /\ \A i \in 1..Len(data) : data[i].kind = "checkpoint" =>
             /\ checkpoint < data[i].at /\ data[i].at <= stored
             /\ frame.kind = "checkpoint" => frame.at < data[i].at
             /\ \A j \in 1..Len(data) :
                  i < j /\ data[j].kind = "checkpoint" => data[i].at < data[j].at
        /\ frame.kind = "checkpoint" => checkpoint <= frame.at /\ frame.at <= stored
    BY DEF OrderInv, CheckpointsInOrder
  <2>5. CheckpointsInOrder'
    <3>1. ASSUME NEW i \in 1..Len(data'), data'[i].kind = "checkpoint"
          PROVE  /\ checkpoint < data'[i].at /\ data'[i].at <= next - 1
                 /\ frame.kind = "checkpoint" => frame.at < data'[i].at
                 /\ \A j \in 1..Len(data') :
                      i < j /\ data'[j].kind = "checkpoint" => data'[i].at < data'[j].at
      <4>1. CASE i \in 1..Len(data)
        <5>1. data'[i] = data[i]
          BY <2>3, <4>1
        <5>2. ASSUME NEW j \in 1..Len(data'), i < j, data'[j].kind = "checkpoint"
              PROVE  data'[i].at < data'[j].at
          <6>1. CASE j \in 1..Len(data)
            BY <2>3, <2>4, <3>1, <4>1, <5>1, <5>2, <6>1
          <6>2. CASE j = Len(data) + 1
            BY <1>t, <2>1, <2>2, <2>3, <2>4, <3>1, <4>1, <5>1, <6>2
          <6> QED BY <2>3, <6>1, <6>2
        <5>3. /\ data[i].at \in Int /\ data[i].at <= stored /\ checkpoint < data[i].at
              /\ frame.kind = "checkpoint" => frame.at < data[i].at
          BY <1>t, <2>4, <3>1, <4>1, <5>1
        <5>4. data[i].at <= next - 1
          BY <1>t, <2>1, <5>3
        <5> QED BY <5>1, <5>2, <5>3, <5>4
      <4>2. CASE i = Len(data) + 1
        <5>1. data'[i].at = next - 1
          BY <2>2, <2>3, <4>2
        <5>2. \A j \in 1..Len(data') : ~(i < j)
          BY <1>t, <2>3, <4>2
        <5> QED BY <1>t, <2>1, <2>4, <5>1, <5>2
      <4> QED BY <2>3, <4>1, <4>2
    <3>2. frame.kind = "checkpoint" => checkpoint <= frame.at /\ frame.at <= next - 1
      BY <1>t, <2>1, <2>4
    <3>3. checkpoint <= next - 1
      BY <1>t, <2>1, <2>4
    <3> QED BY <2>1, <3>1, <3>2, <3>3 DEF CheckpointsInOrder
  <2>6. LastOnItsWay'
    <3>1. Len(data) + 1 \in 1..Len(data')
      BY <1>t, <2>3
    <3> QED BY <2>1, <2>2, <2>3, <3>1 DEF LastOnItsWay
  <2>7. ChannelsDone'
    BY <2>1 DEF OrderInv, ChannelsDone
  <2> QED BY <2>5, <2>6, <2>7 DEF OrderInv
<1>3. CASE WaitPayloadAcks \/ SyncReturns \/ DrainPayloadAcks \/ ResolveAck \/ OnceIdle
  <2>1. /\ UNCHANGED <<stored, data, frame, checkpoint, dataDone, host>>
        /\ plugin = "gone" => plugin' = "gone"
    BY <1>3 DEF WaitPayloadAcks, SyncReturns, DrainPayloadAcks, ResolveAck, OnceIdle,
        pluginVars, channelVars, hostVars, walVars
  <2> QED BY <2>1, QuietStep
<1>4. CASE SyncErrs \/ PluginDies \/ UNCHANGED vars
  <2>1. /\ UNCHANGED <<stored, data, frame, checkpoint, dataDone, host>>
        /\ plugin = "gone" => plugin' = "gone"
    BY <1>4 DEF SyncErrs, PluginDies, vars, pluginVars, channelVars, hostVars, walVars
  <2> QED BY <2>1, QuietStep
<1>5. CASE ControlEof \/ ForwardAck \/ ThrottleJoins \/ DrainJoins
  <2>1. /\ UNCHANGED <<stored, data, frame, checkpoint, dataDone>> /\ host' \in {host, "err"}
        /\ plugin = "gone" => plugin' = "gone"
    BY <1>5 DEF ControlEof, ForwardAck, ThrottleJoins, DrainJoins, HostErr, pluginVars,
        channelVars, hostVars, walVars
  <2> QED BY <2>1, QuietStep
<1>6. ASSUME NEW b \in Batches, RunTask(b) \/ UnitPersists(b) \/ UnitFails(b) PROVE OrderInv'
  <2>1. UNCHANGED <<stored, data, frame, checkpoint, dataDone, host, plugin>>
    BY <1>6 DEF RunTask, UnitPersists, UnitFails, pluginVars, channelVars, hostVars, walVars
  <2> QED BY <2>1, QuietStep
<1>7. CASE TakeControlFrame
  <2>1. CASE /\ host = "loop" /\ host' = "drain" /\ frame' = Frame("completed", 0)
             /\ UNCHANGED <<stored, plugin, data, dataDone, checkpoint>>
    <3>1. frame.kind = "none" /\ frame'.kind = "completed"
      BY <2>1 DEF OrderInv, ChannelsDone, Frame
    <3>2. CheckpointsInOrder' /\ LastOnItsWay'
      BY <2>1, <3>1, OrderKept DEF OrderInv
    <3>3. ChannelsDone'
      BY <2>1, <3>1 DEF OrderInv, ChannelsDone
    <3> QED BY <3>2, <3>3 DEF OrderInv
  <2>2. CASE HostErr /\ UNCHANGED <<data, checkpoint>>
    BY <2>2, QuietStep DEF HostErr
  <2> QED BY <1>7, <2>1, <2>2 DEF TakeControlFrame, pluginVars, walVars
<1>8. CASE TakeDataFrame
  <2>1. /\ host = "loop" /\ data # <<>> /\ frame' = Head(data) /\ data' = Tail(data)
        /\ UNCHANGED <<stored, checkpoint, dataDone, plugin>>
        /\ \/ frame'.kind = "batch" /\ host' = "throttle"
           \/ frame'.kind = "checkpoint" /\ host' = "drain"
    BY <1>8 DEF TakeDataFrame, pluginVars, walVars
  <2>2. /\ 1 \in 1..Len(data) /\ frame' = data[1]
        /\ \A i \in 1..Len(data') : i + 1 \in 1..Len(data) /\ data'[i] = data[i + 1]
    BY <1>t, <2>1, TakeFirst
  <2>3. \A i \in 1..Len(data) : i = 1 \/ (i - 1 \in 1..Len(data') /\ data'[i - 1] = data[i])
    BY <1>t, <2>1
  <2>4. frame.kind = "none" /\ ~dataDone
    BY <2>1 DEF OrderInv, ChannelsDone
  <2>5. CheckpointsInOrder'
    <3>1. ASSUME NEW i \in 1..Len(data'), data'[i].kind = "checkpoint"
          PROVE  /\ checkpoint < data'[i].at /\ data'[i].at <= stored
                 /\ frame'.kind = "checkpoint" => frame'.at < data'[i].at
                 /\ \A j \in 1..Len(data') :
                      i < j /\ data'[j].kind = "checkpoint" => data'[i].at < data'[j].at
      <4>1. i + 1 \in 1..Len(data) /\ data'[i] = data[i + 1] /\ 1 < i + 1
        BY <2>2, <3>1
      <4>2. ASSUME NEW j \in 1..Len(data'), i < j, data'[j].kind = "checkpoint"
            PROVE  data'[i].at < data'[j].at
        <5>1. j + 1 \in 1..Len(data) /\ data'[j] = data[j + 1] /\ i + 1 < j + 1
          BY <2>2, <4>2
        <5> QED BY <3>1, <4>1, <4>2, <5>1 DEF OrderInv, CheckpointsInOrder
      <4> QED BY <2>2, <3>1, <4>1, <4>2 DEF OrderInv, CheckpointsInOrder
    <3>2. frame'.kind = "checkpoint" => checkpoint <= frame'.at /\ frame'.at <= stored
      BY <1>t, <2>2 DEF OrderInv, CheckpointsInOrder
    <3>3. checkpoint <= stored
      BY DEF OrderInv, CheckpointsInOrder
    <3> QED BY <2>1, <3>1, <3>2, <3>3 DEF CheckpointsInOrder
  <2>6. LastOnItsWay'
    <3>1. CASE checkpoint = stored
      BY <2>1, <3>1 DEF LastOnItsWay
    <3>2. ASSUME NEW i \in 1..Len(data), data[i].kind = "checkpoint", data[i].at = stored
          PROVE  LastOnItsWay'
      <4>1. CASE i = 1
        BY <2>1, <2>2, <3>2, <4>1 DEF LastOnItsWay
      <4>2. CASE i # 1
        BY <2>1, <2>3, <3>2, <4>2 DEF LastOnItsWay
      <4> QED BY <4>1, <4>2
    <3> QED BY <2>4, <3>1, <3>2 DEF OrderInv, LastOnItsWay
  <2>7. ChannelsDone'
    BY <2>1, <2>4 DEF ChannelsDone
  <2> QED BY <2>5, <2>6, <2>7 DEF OrderInv
<1>9. CASE SpawnTask
  <2>1. /\ host = "throttle" /\ host' = "loop" /\ frame' = NoFrame
        /\ UNCHANGED <<stored, plugin, data, dataDone, checkpoint>>
    BY <1>9 DEF SpawnTask, pluginVars, channelVars, walVars
  <2>2. frame.kind = "batch" /\ frame'.kind = "none"
    BY <2>1 DEF OrderInv, ChannelsDone, NoFrame
  <2>3. CheckpointsInOrder' /\ LastOnItsWay'
    BY <2>1, <2>2, OrderKept DEF OrderInv
  <2>4. ChannelsDone'
    BY <2>1, <2>2 DEF OrderInv, ChannelsDone
  <2> QED BY <2>3, <2>4 DEF OrderInv
<1>10. CASE DrainDone
  <2>1. /\ host = "drain" /\ UNCHANGED <<stored, plugin, data, dataDone, checkpoint>>
        /\ \/ frame.kind = "completed" /\ host' = "loop" /\ frame' = NoFrame
           \/ host' = "flush" /\ frame' = frame
    BY <1>10 DEF DrainDone, pluginVars, channelVars, walVars
  <2>2. NoFrame.kind = "none"
    BY DEF NoFrame
  <2>3. CheckpointsInOrder' /\ LastOnItsWay'
    BY <2>1, <2>2, OrderKept DEF OrderInv
  <2>4. ChannelsDone'
    BY <2>1, <2>2 DEF OrderInv, ChannelsDone
  <2> QED BY <2>3, <2>4 DEF OrderInv
<1>11. CASE Flush
  <2>1. CASE /\ host = "flush" /\ UNCHANGED <<stored, plugin, data, dataDone, checkpoint, frame>>
             /\ host' = IF frame.kind = "checkpoint" THEN "persist" ELSE "ok"
    <3>1. CheckpointsInOrder' /\ LastOnItsWay'
      BY <2>1, OrderKept DEF OrderInv
    <3>2. frame.kind \in {"checkpoint", "finish"}
      BY <2>1 DEF IInv, FrameFitsHost
    <3>3. ChannelsDone'
      BY <2>1, <3>2 DEF OrderInv, ChannelsDone
    <3> QED BY <3>1, <3>3 DEF OrderInv
  <2>2. CASE HostErr /\ UNCHANGED <<data, checkpoint>>
    BY <2>2, QuietStep DEF HostErr
  <2> QED BY <1>11, <2>1, <2>2 DEF Flush, pluginVars, channelVars, walVars
<1>12. CASE PersistCheckpoint
  <2>1. /\ host = "persist" /\ frame.kind = "checkpoint"
        /\ UNCHANGED <<stored, data, dataDone>>
    BY <1>12 DEF PersistCheckpoint, HostErr, pluginVars, channelVars, IInv, FrameFitsHost
  <2>2. CASE /\ checkpoint' = frame.at /\ host' = "loop" /\ frame' = NoFrame
             /\ plugin' = plugin
    <3>1. NoFrame.kind = "none"
      BY DEF NoFrame
    <3>2. CheckpointsInOrder'
      BY <2>1, <2>2, <3>1 DEF OrderInv, CheckpointsInOrder
    <3>3. LastOnItsWay'
      BY <1>t, <2>1, <2>2 DEF OrderInv, LastOnItsWay, CheckpointsInOrder
    <3>4. ChannelsDone'
      BY <2>1, <2>2, <3>1 DEF OrderInv, ChannelsDone
    <3> QED BY <3>2, <3>3, <3>4 DEF OrderInv
  <2>3. CASE checkpoint' \in {checkpoint, frame.at} /\ HostErr
    <3>1. frame' = frame /\ host' = "err" /\ plugin' = "gone"
      BY <2>3 DEF HostErr
    <3>2. CheckpointsInOrder'
      BY <1>t, <2>1, <2>3, <3>1 DEF OrderInv, CheckpointsInOrder
    <3>3. LastOnItsWay'
      BY <1>t, <2>1, <2>3, <3>1 DEF OrderInv, LastOnItsWay, CheckpointsInOrder
    <3>4. ChannelsDone'
      BY <2>1, <3>1 DEF OrderInv, ChannelsDone
    <3> QED BY <3>2, <3>3, <3>4 DEF OrderInv
  <2> QED BY <1>12, <2>2, <2>3 DEF PersistCheckpoint, pluginVars
<1>13. CASE DataEof
  <2>1. /\ host = "loop" /\ data = <<>> /\ plugin = "gone"
        /\ UNCHANGED <<stored, plugin, data, host, frame, checkpoint>>
    BY <1>13 DEF DataEof, pluginVars, channelVars, walVars
  <2>2. CheckpointsInOrder' /\ LastOnItsWay'
    BY <2>1, OrderKept DEF OrderInv
  <2>3. ChannelsDone'
    BY <2>1 DEF OrderInv, ChannelsDone
  <2> QED BY <2>2, <2>3 DEF OrderInv
<1>14. CASE Finish
  <2>1. /\ host = "loop" /\ dataDone /\ host' = "drain" /\ frame' = Frame("finish", 0)
        /\ UNCHANGED <<stored, plugin, data, dataDone, checkpoint>>
    BY <1>14 DEF Finish, pluginVars, channelVars, walVars
  <2>2. frame.kind = "none" /\ frame'.kind = "finish"
    BY <2>1 DEF OrderInv, ChannelsDone, Frame
  <2>3. CheckpointsInOrder' /\ LastOnItsWay'
    BY <2>1, <2>2, OrderKept DEF OrderInv
  <2>4. ChannelsDone'
    BY <2>1, <2>2 DEF OrderInv, ChannelsDone
  <2> QED BY <2>3, <2>4 DEF OrderInv
<1>15. CASE Restart
  <2>1. /\ data' = <<>> /\ frame' = NoFrame /\ host' = "loop" /\ dataDone' = FALSE
        /\ stored' = checkpoint /\ checkpoint' = checkpoint
    BY <1>15 DEF Restart, walVars
  <2> QED BY <1>t, <2>1 DEF OrderInv, CheckpointsInOrder, LastOnItsWay, ChannelsDone, NoFrame
<1> QED
  BY StepCases, <1>1, <1>2, <1>3, <1>4, <1>5, <1>6, <1>7, <1>8, <1>9, <1>10, <1>11, <1>12,
      <1>13, <1>14, <1>15

\* Only PersistCheckpoint writes the checkpoint, with the one at hand.
LEMMA CheckpointStep ==
    TypeOK /\ IInv /\ OrderInv /\ [Next]_vars => checkpoint' >= checkpoint
<1> SUFFICES ASSUME TypeOK, IInv, OrderInv, [Next]_vars PROVE checkpoint' >= checkpoint
  OBVIOUS
<1>t. checkpoint \in Int /\ frame.at \in Int
  BY SessionAssumption DEF TypeOK
<1>1. CASE PersistCheckpoint
  <2>1. frame.kind = "checkpoint" /\ checkpoint' \in {checkpoint, frame.at}
    BY <1>1 DEF PersistCheckpoint, IInv, FrameFitsHost
  <2> QED BY <1>t, <2>1 DEF OrderInv, CheckpointsInOrder
<1>2. CASE ~PersistCheckpoint
  <2>1. checkpoint' = checkpoint
    BY <1>2, StepCases DEF Submit, WaitPayloadAcks, StoreCheckpoint, SyncReturns,
        DrainPayloadAcks, ResolveAck, TakeControlFrame, ControlEof, ForwardAck, TakeDataFrame,
        ThrottleJoins, SpawnTask, DrainJoins, DrainDone, Flush, DataEof, Finish, RunTask,
        UnitPersists, UnitFails, OnceIdle, SyncErrs, PluginDies, Restart, vars, walVars
  <2> QED BY <1>t, <2>1
<1> QED BY <1>1, <1>2

----------------------------------------------------------------------------
\* The first inductive invariant holds.
LEMMA SessionInvariant == Spec => [](TypeOK /\ IInv)
<1>1. Init => TypeOK /\ IInv
  <2> SUFFICES ASSUME Init PROVE TypeOK /\ IInv
    OBVIOUS
  <2>1. Cardinality({}) = 0
    BY FS_EmptySet
  <2>2. TypeOK
    <3>1. /\ Cardinality(pending) <= Window /\ 1 \in 1..(NumBatches + 1) /\ 0 \in 0..NumBatches
          /\ 0 \in 0..MaxFailures /\ 0 \in 0..MaxRestarts
      BY <2>1, SessionAssumption DEF Init
    <3>2. TypePlugin /\ TypeClient /\ TypeWal
      BY <3>1 DEF Init, TypePlugin, TypeClient, TypeWal
    <3>3. TypeChannels
      BY DEF Init, TypeChannels
    <3>4. TypeHost
      BY HostFrames DEF Init, TypeHost
    <3>5. TypeIngest
      BY DEF Init, TypeIngest
    <3> QED BY <3>2, <3>3, <3>4, <3>5, TypeParts
  <2>3. IInv
    BY SessionAssumption DEF Init, IInv, AnswersSafe, BelowNextSafe, CheckpointsSafe,
        CompletedSafe, FrameFitsHost, Covered, Safe, Batches, NoFrame
  <2> QED BY <2>2, <2>3
<1>2. TypeOK /\ IInv /\ [Next]_vars => (TypeOK /\ IInv)'
  BY TypeStep, InvStep DEF IInv
<1> QED BY <1>1, <1>2, PTL DEF Spec

(* For every size of the source, window, spawn cap and any failures and    *)
(* restarts: sync_runtime_input_plugin never persists a checkpoint beyond  *)
(* a batch that is missing from the WAL, and never returns Ok while a      *)
(* batch the plugin read is missing from it.                               *)
THEOREM SessionSafety == Spec => [](TypeOK /\ CheckpointCovered /\ OkIsDurable)
<1>1. TypeOK /\ IInv => TypeOK /\ CheckpointCovered /\ OkIsDurable
  BY DEF IInv, CheckpointsSafe, CompletedSafe, FrameFitsHost, CheckpointCovered, OkIsDurable
<1> QED
  BY <1>1, SessionInvariant, PTL

(* For every size and any failures and restarts: a session that returns Ok *)
(* has persisted the last checkpoint the plugin sent, although Completed   *)
(* travels on another channel than the checkpoints; and no step of any     *)
(* session, a restarted one included, moves the persisted checkpoint back. *)
THEOREM SessionCheckpoints == Spec => []OkIsCheckpointed /\ CheckpointAdvances
<1>1. Init => OrderInv
  BY DEF Init, OrderInv, CheckpointsInOrder, LastOnItsWay, ChannelsDone, NoFrame
<1>2. TypeOK /\ IInv /\ (TypeOK /\ IInv)' /\ OrderInv /\ [Next]_vars => OrderInv'
  BY OrderStep
<1>3. TypeOK /\ IInv /\ OrderInv => OkIsCheckpointed
  <2> SUFFICES ASSUME OrderInv, host = "ok" PROVE checkpoint = stored
    BY DEF OkIsCheckpointed
  <2>1. data = <<>> /\ frame.kind = "finish"
    BY DEF OrderInv, ChannelsDone
  <2>2. 1..Len(data) = {}
    BY <2>1
  <2> QED BY <2>1, <2>2 DEF OrderInv, LastOnItsWay
<1>4. TypeOK /\ IInv /\ OrderInv /\ [Next]_vars => [checkpoint' >= checkpoint]_vars
  BY CheckpointStep
<1> QED
  BY <1>1, <1>2, <1>3, <1>4, SessionInvariant, PTL DEF Spec, CheckpointAdvances
=============================================================================
