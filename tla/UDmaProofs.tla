----------------------------- MODULE UDmaProofs -----------------------------
(***************************************************************************)
(* What is proved of UDma for every set of handles and number of channels. *)
(* Which handle has which channel never depends on Usage.  What a status   *)
(* says of the transfer is proved for an empty Usage: then every handle    *)
(* with a channel is in one of a few phases.                               *)
(***************************************************************************)
EXTENDS UDma, TLAPS

\* A function of the main context works on a handle that has a channel.
InFunction ==
  /\ pc = "client" => cur = NULL
  /\ pc # "client" => cur \in Handles /\ HasChannel(cur)
  /\ pc = "release" => hw[channel[cur]] = "off"

\* Types, and who has which channel.
Structure == TypeOK /\ InFunction /\ OwnsChannel /\ HandlerHasHandle

\* A channel number is never the number that stands for none.
LEMMA ChannelsValid == \A c \in Channels : c \in Int /\ c # DMA_CHN_INVALID
  BY ChannelAssumption DEF Channels, DMA_CHN_INVALID

\* A handle that has a channel has one that exists, which no other handle has.
LEMMA ChannelOf ==
  ASSUME TypeOK, OwnsChannel, NEW h \in Handles, HasChannel(h)
  PROVE  /\ channel[h] \in Channels
         /\ dma_chns[channel[h]] = h
         /\ \A g \in Handles : channel[g] = channel[h] => g = h
<1>1. channel[h] \in Channels
  BY DEF TypeOK, HasChannel
<1>2. dma_chns[channel[h]] = h
  BY <1>1 DEF OwnsChannel
<1>3. \A g \in Handles : channel[g] = channel[h] => g = h
  BY <1>1, <1>2 DEF OwnsChannel
<1> QED
  BY <1>1, <1>2, <1>3

\* A channel that is moving data is its handle's.
LEMMA HandleOf ==
  ASSUME TypeOK, OwnsChannel, HandlerHasHandle, NEW c \in Channels, hw[c] # "off"
  PROVE  /\ dma_chns[c] \in Handles
         /\ channel[dma_chns[c]] = c
         /\ HasChannel(dma_chns[c])
<1>1. dma_chns[c] \in Handles
  BY DEF TypeOK, HandlerHasHandle
<1>2. channel[dma_chns[c]] = c
  BY <1>1 DEF OwnsChannel
<1> QED
  BY <1>1, <1>2, ChannelsValid DEF HasChannel

-----------------------------------------------------------------------------
\* The inductive invariant about the ownership of channels.
THEOREM StructureHolds == Spec => []Structure
<1>1. Init => Structure
  <2> SUFFICES ASSUME Init PROVE Structure
    OBVIOUS
  <2> USE DEF Init
  <2>1. TypeOK
    BY DEF TypeOK, Sources
  <2>2. InFunction
    BY DEF InFunction
  <2>3. OwnsChannel
    BY HandleAssumption, ChannelsValid DEF OwnsChannel
  <2>4. HandlerHasHandle
    BY DEF HandlerHasHandle
  <2> QED
    BY <2>1, <2>2, <2>3, <2>4 DEF Structure
<1>2. Structure /\ [Next]_vars => Structure'
  <2> SUFFICES ASSUME Structure, [Next]_vars PROVE Structure'
    OBVIOUS
  <2> USE DEF Structure
  <2>1. ASSUME NEW h \in Handles, dmac_init_channel(h) PROVE Structure'
    <3>1. TypeOK'
      BY <2>1 DEF dmac_init_channel, TypeOK, main, Sources
    <3>2. InFunction'
      BY <2>1 DEF dmac_init_channel, InFunction, main, HasChannel
    <3>3. OwnsChannel' /\ HandlerHasHandle'
      BY <2>1 DEF dmac_init_channel, OwnsChannel, HandlerHasHandle
    <3> QED
      BY <3>1, <3>2, <3>3
  <2>2. ASSUME NEW h \in Handles, ReleaseDisable(h) PROVE Structure'
    <3>1. TypeOK'
      BY <2>2 DEF ReleaseDisable, TypeOK, handles
    <3>2. InFunction'
      BY <2>2, ChannelOf DEF ReleaseDisable, InFunction, handles, HasChannel, TypeOK
    <3>3. OwnsChannel'
      BY <2>2 DEF ReleaseDisable, OwnsChannel, handles
    <3>4. HandlerHasHandle'
      BY <2>2, ChannelOf DEF ReleaseDisable, HandlerHasHandle, handles, TypeOK
    <3> QED
      BY <3>1, <3>2, <3>3, <3>4
  <2>3. ASSUME NEW h \in Handles, NEW c \in Channels, NEW s \in Sources,
               dmac_reserve_channel(h, c, s)
        PROVE Structure'
    <3>1. TypeOK'
      BY <2>3 DEF dmac_reserve_channel, Claim, TypeOK, main
    <3>2. InFunction'
      BY <2>3 DEF dmac_reserve_channel, InFunction, InClient, main
    <3>3. OwnsChannel'
      BY <2>3, ChannelsValid, HandleAssumption
      DEF dmac_reserve_channel, Claim, OwnsChannel, TypeOK, HasChannel
    <3>4. HandlerHasHandle'
      BY <2>3, HandleAssumption
      DEF dmac_reserve_channel, Claim, HandlerHasHandle, TypeOK
    <3> QED
      BY <3>1, <3>2, <3>3, <3>4
  <2>4. ASSUME NEW h \in Handles, NEW cb \in BOOLEAN, StartConfigure(h, cb)
        PROVE Structure'
    <3>1. TypeOK'
      BY <2>4 DEF StartConfigure, TypeOK, handles
    <3>2. InFunction'
      BY <2>4 DEF StartConfigure, InFunction, handles, HasChannel
    <3>3. OwnsChannel'
      BY <2>4 DEF StartConfigure, OwnsChannel, handles
    <3>4. HandlerHasHandle'
      BY <2>4, ChannelOf DEF StartConfigure, HandlerHasHandle, handles, TypeOK
    <3> QED
      BY <3>1, <3>2, <3>3, <3>4
  <2>5. ASSUME NEW h \in Handles, dmac_stop_channel(h) PROVE Structure'
    <3>1. TypeOK'
      BY <2>5 DEF dmac_stop_channel, TypeOK, handles, main
    <3>2. InFunction'
      BY <2>5 DEF dmac_stop_channel, InFunction, handles, main, HasChannel
    <3>3. OwnsChannel'
      BY <2>5 DEF dmac_stop_channel, OwnsChannel, handles
    <3>4. HandlerHasHandle'
      BY <2>5, ChannelOf DEF dmac_stop_channel, HandlerHasHandle, handles, TypeOK
    <3> QED
      BY <3>1, <3>2, <3>3, <3>4
  <2>6. ASSUME NEW h \in Handles, dmac_clear_channel(h) PROVE Structure'
    <3>1. TypeOK'
      BY <2>6 DEF dmac_clear_channel, TypeOK, handles, main
    <3>2. InFunction'
      BY <2>6 DEF dmac_clear_channel, InFunction, InClient, handles, main, HasChannel
    <3>3. OwnsChannel'
      BY <2>6 DEF dmac_clear_channel, OwnsChannel, handles
    <3>4. HandlerHasHandle'
      BY <2>6, ChannelOf, HandleAssumption
      DEF dmac_clear_channel, HandlerHasHandle, handles, TypeOK
    <3> QED
      BY <3>1, <3>2, <3>3, <3>4
  <2>7. ASSUME NEW h \in Handles, dmac_check_channel(h) PROVE Structure'
    <3>1. TypeOK'
      BY <2>7 DEF dmac_check_channel, TypeOK, handles, main, Polled
    <3>2. InFunction' /\ OwnsChannel' /\ HandlerHasHandle'
      BY <2>7 DEF dmac_check_channel, InFunction, OwnsChannel, HandlerHasHandle,
                  handles, main, HasChannel
    <3> QED
      BY <3>1, <3>2
  <2>8. ASSUME NEW h \in Handles, WaitCall(h) PROVE Structure'
    <3>1. TypeOK'
      BY <2>8 DEF WaitCall, TypeOK, handles
    <3>2. InFunction' /\ OwnsChannel' /\ HandlerHasHandle'
      BY <2>8 DEF WaitCall, InFunction, OwnsChannel, HandlerHasHandle, handles,
                  HasChannel
    <3> QED
      BY <3>1, <3>2
  <2>9. CASE StartEnable
    <3>1. TypeOK'
      BY <2>9 DEF StartEnable, TypeOK, handles
    <3>2. InFunction' /\ OwnsChannel'
      BY <2>9 DEF StartEnable, InFunction, OwnsChannel, handles, HasChannel
    <3>3. cur \in Handles /\ HasChannel(cur)
      BY <2>9 DEF StartEnable, InFunction
    <3>4. dma_chns[channel[cur]] # NULL
      BY <3>3, ChannelOf, HandleAssumption
    <3>5. HandlerHasHandle'
      BY <2>9, <3>4 DEF StartEnable, HandlerHasHandle, handles, TypeOK
    <3> QED
      BY <3>1, <3>2, <3>5
  <2>10. CASE StartFill
    <3>1. TypeOK'
      BY <2>10 DEF StartFill, TypeOK, handles
    <3>2. InFunction' /\ OwnsChannel' /\ HandlerHasHandle'
      BY <2>10 DEF StartFill, InFunction, OwnsChannel, HandlerHasHandle, handles,
                   HasChannel
    <3> QED
      BY <3>1, <3>2
  <2>11. CASE StartBusy
    <3>1. TypeOK'
      BY <2>11 DEF StartBusy, TypeOK, handles
    <3>2. InFunction' /\ OwnsChannel' /\ HandlerHasHandle'
      BY <2>11 DEF StartBusy, InFunction, OwnsChannel, HandlerHasHandle, handles,
                   HasChannel
    <3> QED
      BY <3>1, <3>2
  <2>12. CASE StartTrigger
    <3>1. TypeOK'
      BY <2>12 DEF StartTrigger, TypeOK, handles
    <3>2. InFunction' /\ OwnsChannel'
      BY <2>12 DEF StartTrigger, InFunction, OwnsChannel, handles, HasChannel
    <3>3. cur \in Handles /\ HasChannel(cur)
      BY <2>12 DEF StartTrigger, InFunction
    <3>4. dma_chns[channel[cur]] # NULL
      BY <3>3, ChannelOf, HandleAssumption
    <3>5. HandlerHasHandle'
      BY <2>12, <3>4 DEF StartTrigger, HandlerHasHandle, handles, TypeOK
    <3> QED
      BY <3>1, <3>2, <3>5
  <2>13. CASE WaitPoll
    <3>1. TypeOK'
      BY <2>13 DEF WaitPoll, TypeOK, handles, main, Polled
    <3>2. InFunction' /\ OwnsChannel' /\ HandlerHasHandle'
      BY <2>13 DEF WaitPoll, InFunction, OwnsChannel, HandlerHasHandle, handles,
                   main, HasChannel
    <3> QED
      BY <3>1, <3>2
  <2>14. CASE WaitReturn
    <3>1. TypeOK'
      BY <2>14 DEF WaitReturn, TypeOK, handles
    <3>2. InFunction' /\ OwnsChannel' /\ HandlerHasHandle'
      BY <2>14 DEF WaitReturn, InFunction, OwnsChannel, HandlerHasHandle, handles,
                   HasChannel
    <3> QED
      BY <3>1, <3>2
  <2>15. ASSUME NEW c \in Channels, PeripheralRequest(c) PROVE Structure'
    <3>1. TypeOK'
      BY <2>15 DEF PeripheralRequest, TypeOK, handles, main
    <3>2. InFunction' /\ OwnsChannel'
      BY <2>15 DEF PeripheralRequest, InFunction, OwnsChannel, handles, main,
                   HasChannel
    <3>3. HandlerHasHandle'
      BY <2>15 DEF PeripheralRequest, HandlerHasHandle, handles, TypeOK
    <3> QED
      BY <3>1, <3>2, <3>3
  <2>16. ASSUME NEW c \in Channels, NEW ok \in BOOLEAN, EndsSilently(c, ok)
         PROVE Structure'
    <3>1. TypeOK'
      BY <2>16 DEF EndsSilently, Ended, TypeOK, handles, main
    <3>2. InFunction' /\ OwnsChannel'
      BY <2>16 DEF EndsSilently, InFunction, OwnsChannel, handles, main, HasChannel
    <3>3. HandlerHasHandle'
      BY <2>16 DEF EndsSilently, HandlerHasHandle, handles, TypeOK
    <3> QED
      BY <3>1, <3>2, <3>3
  <2>17. ASSUME NEW c \in Channels, NEW ok \in BOOLEAN, Interrupt(c, ok)
         PROVE Structure'
    <3>1. TypeOK'
      BY <2>17 DEF Interrupt, Ended, TypeOK, handles, main
    <3>2. InFunction' /\ OwnsChannel'
      BY <2>17 DEF Interrupt, InFunction, OwnsChannel, handles, main, HasChannel
    <3>3. HandlerHasHandle'
      BY <2>17 DEF Interrupt, HandlerHasHandle, handles, TypeOK
    <3> QED
      BY <3>1, <3>2, <3>3
  <2>19. CASE ReleaseForget
    <3>0. cur \in Handles /\ HasChannel(cur) /\ hw[channel[cur]] = "off"
      BY <2>19 DEF ReleaseForget, InFunction
    <3>1. TypeOK'
      BY <2>19 DEF ReleaseForget, TypeOK
    <3>2. InFunction'
      BY <2>19 DEF ReleaseForget, InFunction
    <3>3. OwnsChannel'
      BY <2>19, <3>0, ChannelOf, ChannelsValid, HandleAssumption
      DEF ReleaseForget, OwnsChannel, TypeOK
    <3>4. HandlerHasHandle'
      BY <2>19, <3>0, ChannelOf DEF ReleaseForget, HandlerHasHandle, TypeOK
    <3> QED
      BY <3>1, <3>2, <3>3, <3>4
  <2>18. CASE UNCHANGED vars
    BY <2>18 DEF vars, main, handles, TypeOK, InFunction, OwnsChannel,
                 HandlerHasHandle, HasChannel
  <2> QED
    BY <2>1, <2>2, <2>3, <2>4, <2>5, <2>6, <2>7, <2>8, <2>9, <2>10, <2>11, <2>12,
       <2>13, <2>14, <2>15, <2>16, <2>17, <2>18, <2>19
    DEF Next, Call, Function, Controller
<1> QED
  BY <1>1, <1>2, PTL DEF Spec

\* Every handle is the handle of its own channel alone.
THEOREM OwnershipHolds == Spec => []OwnsChannel
<1>1. Structure => OwnsChannel
  BY DEF Structure
<1> QED
  BY <1>1, StructureHolds, PTL

\* Type correctness, for every set of handles and number of channels.
THEOREM TypeCorrect == Spec => []TypeOK
<1>1. Structure => TypeOK
  BY DEF Structure
<1> QED
  BY <1>1, StructureHolds, PTL

\* The interrupt handlers find a handle (arc_udma.c:543, 558).
THEOREM HandlersFindHandle == Spec => []HandlerHasHandle
<1>1. Structure => HandlerHasHandle
  BY DEF Structure
<1> QED
  BY <1>1, StructureHolds, PTL

-----------------------------------------------------------------------------
(* The phases of a handle that has a channel, for an empty Usage           *)

Resting(h) ==
  /\ status[h] # "BUSY" /\ outcome[h] # "started"
  /\ status[h] = Tells[outcome[h]]
  /\ hw[channel[h]] \in {"off", "on"}

Prepared(h) ==
  /\ status[h] # "BUSY" /\ outcome[h] = "started"
  /\ pc = "enable" => hw[channel[h]] = "off"
  /\ pc # "enable" => hw[channel[h]] = "on"
  /\ pc = "busy" => filled[channel[h]]

Requested(h) ==
  /\ status[h] = "BUSY" /\ outcome[h] = "started"
  /\ hw[channel[h]] = "on" /\ filled[channel[h]]
  /\ source[h] = "peripheral" \/ (pc = "trigger" /\ cur = h)

Moving(h) ==
  /\ status[h] = "BUSY" /\ outcome[h] = "started"
  /\ hw[channel[h]] = "moving" /\ filled[channel[h]]

Resulted(h) ==
  /\ ~int_enable[h]
  /\ \/ hw[channel[h]] = "done" /\ outcome[h] = "ok"
        /\ status[h] \in {"BUSY", "IDLE"}
     \/ hw[channel[h]] = "failed" /\ outcome[h] = "failed"
        /\ status[h] \in {"BUSY", "ERROR"}

Released(h) == status[h] # "BUSY" => status[h] = Tells[outcome[h]]

Phase(h) ==
  /\ Starting(h) => Prepared(h)
  /\ Releasing(h) => Released(h)
  /\ ~Starting(h) /\ ~Releasing(h) =>
       Resting(h) \/ Requested(h) \/ Moving(h) \/ Resulted(h)
  /\ pc = "trigger" /\ cur = h => Requested(h)

Phases == \A h \in Handles : HasChannel(h) => Phase(h)

\* The inductive invariant about the statuses: without early requests and idle
\* checks every handle that has a channel is in one of its phases.
THEOREM PhasesHold == ASSUME Usage = {} PROVE Spec => []Phases
<1>1. Init => Phases
  BY DEF Init, Phases, HasChannel
<1>2. Structure /\ Phases /\ [Next]_vars => Phases'
  <2> SUFFICES ASSUME Structure, Phases, [Next]_vars,
                      NEW g \in Handles, HasChannel(g)'
               PROVE  Phase(g)'
    BY DEF Phases
  <2> USE DEF Structure
  <2>0. HasChannel(g) => Phase(g) /\ channel[g] \in Channels
    BY ChannelOf DEF Phases
  <2>1. ASSUME NEW h \in Handles, dmac_init_channel(h) PROVE Phase(g)'
    <3>1. g # h /\ HasChannel(g)
      BY <2>1 DEF dmac_init_channel, HasChannel
    <3> QED
      BY <2>0, <2>1, <3>1 DEF dmac_init_channel, TypeOK, main,
         Phase, Starting, Releasing, Released,
         Prepared, Resting, Requested, Moving, Resulted
  <2>2. ASSUME NEW h \in Handles, ReleaseDisable(h) PROVE Phase(g)'
    <3>1. HasChannel(g) /\ channel' = channel /\ pc = "client"
      BY <2>2 DEF ReleaseDisable, handles, HasChannel, InClient
    <3>2. CASE g = h
      BY <2>0, <2>2, <3>1, <3>2 DEF ReleaseDisable, TypeOK, handles,
         Phase, Starting, Releasing, Released,
         Releasing, Released, Resting, Requested, Moving, Resulted, Tells
    <3>3. CASE g # h
      <4>1. channel[g] # channel[h]
        BY <2>2, <3>1, <3>3, ChannelOf DEF ReleaseDisable
      <4> QED
        BY <2>0, <2>2, <3>1, <3>3, <4>1 DEF ReleaseDisable, TypeOK, handles, Phase,
           Starting, Releasing, Released, Prepared, Resting, Requested, Moving, Resulted
    <3> QED
      BY <3>2, <3>3
  <2>3. ASSUME NEW h \in Handles, NEW c \in Channels, NEW s \in Sources,
               dmac_reserve_channel(h, c, s)
        PROVE Phase(g)'
    <3>1. CASE g = h
      <4>1. hw[c] = "off" /\ pc = "client"
        BY <2>3 DEF dmac_reserve_channel, HandlerHasHandle, InClient
      <4> QED
        BY <2>3, <3>1, <4>1 DEF dmac_reserve_channel, Claim, TypeOK, main, Phase,
           Starting, Releasing, Released, Resting, Tells
    <3>2. CASE g # h
      <4>1. HasChannel(g) /\ channel[g] # c
        BY <2>3, <3>2, ChannelOf, HandleAssumption
        DEF dmac_reserve_channel, Claim, HasChannel, TypeOK
      <4> QED
        BY <2>0, <2>3, <3>2, <4>1 DEF dmac_reserve_channel, Claim, TypeOK, main,
           Phase, Starting, Releasing, Released, Prepared, Resting, Requested, Moving, Resulted
    <3> QED
      BY <3>1, <3>2
  <2>4. ASSUME NEW h \in Handles, NEW cb \in BOOLEAN, StartConfigure(h, cb)
        PROVE Phase(g)'
    <3>1. HasChannel(g) /\ channel' = channel /\ pc = "client"
      BY <2>4 DEF StartConfigure, handles, HasChannel, InClient
    <3>2. CASE g = h
      BY <2>0, <2>4, <3>1, <3>2 DEF StartConfigure, TypeOK, handles, Phase,
         Starting, Releasing, Released, Prepared
    <3>3. CASE g # h
      <4>1. channel[g] # channel[h]
        BY <2>4, <3>1, <3>3, ChannelOf DEF StartConfigure
      <4> QED
        BY <2>0, <2>4, <3>1, <3>3, <4>1 DEF StartConfigure, TypeOK, handles, Phase,
           Starting, Releasing, Released, Prepared, Resting, Requested, Moving, Resulted
    <3> QED
      BY <3>2, <3>3
  <2>5. ASSUME NEW h \in Handles, dmac_stop_channel(h) PROVE Phase(g)'
    <3>1. HasChannel(g) /\ channel' = channel /\ pc = "client"
      BY <2>5 DEF dmac_stop_channel, handles, HasChannel, InClient
    <3>2. CASE g = h
      BY <2>0, <2>5, <3>1, <3>2 DEF dmac_stop_channel, TypeOK, handles, main, Phase,
         Starting, Releasing, Released, Resting, Requested, Moving, Resulted, Tells
    <3>3. CASE g # h
      <4>1. channel[g] # channel[h]
        BY <2>5, <3>1, <3>3, ChannelOf DEF dmac_stop_channel
      <4> QED
        BY <2>0, <2>5, <3>1, <3>3, <4>1 DEF dmac_stop_channel, TypeOK, handles, main,
           Phase, Starting, Releasing, Released, Prepared, Resting, Requested, Moving, Resulted
    <3> QED
      BY <3>2, <3>3
  <2>6. ASSUME NEW h \in Handles, dmac_clear_channel(h) PROVE Phase(g)'
    <3>1. HasChannel(g) /\ channel' = channel /\ pc = "client"
      BY <2>6 DEF dmac_clear_channel, handles, HasChannel, InClient
    <3>2. CASE g = h
      BY <2>0, <2>6, <3>1, <3>2 DEF dmac_clear_channel, TypeOK, handles, main, Phase,
         Starting, Releasing, Released, Resting, Tells
    <3>3. CASE g # h
      <4>1. channel[g] # channel[h]
        BY <2>6, <3>1, <3>3, ChannelOf DEF dmac_clear_channel
      <4> QED
        BY <2>0, <2>6, <3>1, <3>3, <4>1 DEF dmac_clear_channel, TypeOK, handles, main,
           Phase, Starting, Releasing, Released, Prepared, Resting, Requested, Moving, Resulted
    <3> QED
      BY <3>2, <3>3
  <2>7. ASSUME NEW h \in Handles, dmac_check_channel(h) PROVE Phase(g)'
    <3>1. HasChannel(g) /\ channel' = channel /\ pc = "client"
      BY <2>7 DEF dmac_check_channel, handles, HasChannel, InClient
    <3>2. CASE g = h
      <4>1. ~Resting(h)
        BY <2>7, Usage = {} DEF dmac_check_channel, Resting
      <4> QED
        BY <2>0, <2>7, <3>1, <3>2, <4>1 DEF dmac_check_channel, TypeOK, handles, main,
           Phase, Starting, Releasing, Released, Requested, Moving, Resulted, Polled
    <3>3. CASE g # h
      BY <2>0, <2>7, <3>1, <3>3 DEF dmac_check_channel, TypeOK, handles, main, Phase,
         Starting, Releasing, Released, Prepared, Resting, Requested, Moving, Resulted
    <3> QED
      BY <3>2, <3>3
  <2>8. ASSUME NEW h \in Handles, WaitCall(h) PROVE Phase(g)'
    <3>1. HasChannel(g) /\ pc = "client"
      BY <2>8 DEF WaitCall, handles, HasChannel, InClient
    <3> QED
      BY <2>0, <2>8, <3>1 DEF WaitCall, handles,
         Phase, Starting, Releasing, Released, Resting, Requested,
         Moving, Resulted
  <2>9. CASE StartEnable
    <3>1. /\ HasChannel(g) /\ channel' = channel /\ pc = "enable"
          /\ cur \in Handles /\ HasChannel(cur)
      BY <2>9 DEF StartEnable, handles, HasChannel, InFunction
    <3>2. CASE g = cur
      BY <2>0, <2>9, <3>1, <3>2 DEF StartEnable, TypeOK, handles,
         Phase, Starting, Releasing, Released,
         Prepared
    <3>3. CASE g # cur
      <4>1. channel[g] # channel[cur]
        BY <3>1, <3>3, ChannelOf
      <4> QED
        BY <2>0, <2>9, <3>1, <3>3, <4>1 DEF StartEnable, TypeOK, handles, Phase,
           Starting, Releasing, Released, Resting, Requested, Moving, Resulted
    <3> QED
      BY <3>2, <3>3
  <2>10. CASE StartFill
    <3>1. /\ HasChannel(g) /\ channel' = channel /\ pc = "fill"
          /\ cur \in Handles /\ HasChannel(cur)
      BY <2>10 DEF StartFill, handles, HasChannel, InFunction
    <3>2. CASE g = cur
      BY <2>0, <2>10, <3>1, <3>2 DEF StartFill, TypeOK, handles,
         Phase, Starting, Releasing, Released,
         Prepared
    <3>3. CASE g # cur
      <4>1. channel[g] # channel[cur]
        BY <3>1, <3>3, ChannelOf
      <4> QED
        BY <2>0, <2>10, <3>1, <3>3, <4>1 DEF StartFill, TypeOK, handles, Phase,
           Starting, Releasing, Released, Resting, Requested, Moving, Resulted
    <3> QED
      BY <3>2, <3>3
  <2>11. CASE StartBusy
    <3>1. /\ HasChannel(g) /\ channel' = channel /\ pc = "busy"
          /\ cur \in Handles /\ HasChannel(cur)
      BY <2>11 DEF StartBusy, handles, HasChannel, InFunction
    <3>2. CASE g = cur
      BY <2>0, <2>11, <3>1, <3>2 DEF StartBusy, TypeOK, handles,
         Phase, Starting, Releasing, Released,
         Prepared, Requested
    <3>3. CASE g # cur
      BY <2>0, <2>11, <3>1, <3>3 DEF StartBusy, TypeOK, handles,
         Phase, Starting, Releasing, Released,
         Resting, Requested, Moving, Resulted
    <3> QED
      BY <3>2, <3>3
  <2>12. CASE StartTrigger
    <3>1. /\ HasChannel(g) /\ channel' = channel /\ pc = "trigger"
          /\ cur \in Handles /\ HasChannel(cur)
      BY <2>12 DEF StartTrigger, handles, HasChannel, InFunction
    <3>2. CASE g = cur
      <4>1. Requested(cur)
        BY <2>0, <3>1, <3>2 DEF Phase
      <4>2. pc' = "client" /\ UNCHANGED <<status, outcome, source, filled>>
        BY <2>12 DEF StartTrigger, handles
      <4>3. CASE source[cur] = "soft"
        <5>1. Moving(g)'
          BY <2>12, <2>0, <3>1, <3>2, <4>1, <4>2, <4>3
          DEF StartTrigger, Requested, Moving, TypeOK
        <5> QED
          BY <4>2, <5>1 DEF Phase, Starting, Releasing, Released
      <4>4. CASE source[cur] # "soft"
        <5>1. source[cur] = "peripheral"
          BY <3>1, <4>4 DEF TypeOK, Sources
        <5>2. Requested(g)'
          BY <2>12, <3>1, <3>2, <4>1, <4>2, <4>4, <5>1 DEF StartTrigger, Requested
        <5> QED
          BY <4>2, <5>2 DEF Phase, Starting, Releasing, Released
      <4> QED
        BY <4>3, <4>4
    <3>3. CASE g # cur
      <4>1. channel[g] # channel[cur]
        BY <3>1, <3>3, ChannelOf
      <4> QED
        BY <2>0, <2>12, <3>1, <3>3, <4>1 DEF StartTrigger, TypeOK, handles, Phase,
           Starting, Releasing, Released, Resting, Requested, Moving, Resulted
    <3> QED
      BY <3>2, <3>3
  <2>13. CASE WaitPoll
    <3>1. /\ HasChannel(g) /\ channel' = channel /\ pc = "wait"
          /\ cur \in Handles /\ HasChannel(cur)
      BY <2>13 DEF WaitPoll, handles, HasChannel, InFunction
    <3>2. CASE g = cur
      BY <2>0, <2>13, <3>1, <3>2 DEF WaitPoll, TypeOK, handles, main,
         Phase, Starting, Releasing, Released,
         Resting, Requested, Moving, Resulted, Polled
    <3>3. CASE g # cur
      BY <2>0, <2>13, <3>1, <3>3 DEF WaitPoll, TypeOK, handles, main,
         Phase, Starting, Releasing, Released,
         Resting, Requested, Moving, Resulted
    <3> QED
      BY <3>2, <3>3
  <2>14. CASE WaitReturn
    <3>1. HasChannel(g) /\ pc = "wait"
      BY <2>14 DEF WaitReturn, handles, HasChannel
    <3> QED
      BY <2>0, <2>14, <3>1 DEF WaitReturn, handles,
         Phase, Starting, Releasing, Released, Resting,
         Requested, Moving, Resulted
  <2>15. ASSUME NEW c \in Channels, PeripheralRequest(c) PROVE Phase(g)'
    <3>1. /\ HasChannel(g) /\ channel' = channel
          /\ dma_chns[c] \in Handles /\ channel[dma_chns[c]] = c
      BY <2>15, HandleOf DEF PeripheralRequest, handles, HasChannel
    <3>2. status[dma_chns[c]] = "BUSY" /\ pc # "trigger" /\ hw[c] = "on"
      BY <2>15, Usage = {} DEF PeripheralRequest
    <3>3. CASE g = dma_chns[c]
      <4>1. ~Starting(g) /\ ~Releasing(g) /\ Requested(g)
        BY <2>0, <3>1, <3>2, <3>3 DEF Phase, Prepared, Resting, Moving, Resulted,
           InFunction, Releasing
      <4>2. Moving(g)'
        BY <2>15, <3>1, <3>3, <4>1 DEF PeripheralRequest, TypeOK, handles, main,
           Requested, Moving
      <4> QED
        BY <2>15, <3>2, <4>1, <4>2 DEF PeripheralRequest, main,
         Phase, Starting, Releasing, Released
    <3>4. CASE g # dma_chns[c]
      <4>1. channel[g] # c
        BY <3>4 DEF OwnsChannel
      <4> QED
        BY <2>0, <2>15, <3>1, <4>1 DEF PeripheralRequest, TypeOK, handles, main, Phase,
           Starting, Releasing, Released, Prepared, Resting, Requested, Moving, Resulted
    <3> QED
      BY <3>3, <3>4
  <2>16. ASSUME NEW c \in Channels, NEW ok \in BOOLEAN, EndsSilently(c, ok)
         PROVE Phase(g)'
    <3>1. /\ HasChannel(g) /\ channel' = channel /\ hw[c] = "moving"
          /\ dma_chns[c] \in Handles /\ channel[dma_chns[c]] = c
      BY <2>16, HandleOf DEF EndsSilently, handles, HasChannel
    <3>2. CASE g = dma_chns[c]
      <4>1. ~Starting(g) /\ ~Releasing(g) /\ Moving(g) /\ ~(pc = "trigger" /\ cur = g)
        BY <2>0, <3>1, <3>2 DEF Phase, Prepared, Resting, Requested, Resulted,
           InFunction, Releasing
      <4>2. Resulted(g)'
        BY <2>16, <3>1, <3>2, <4>1 DEF EndsSilently, Ended, TypeOK, handles, Moving,
           Resulted
      <4> QED
        BY <2>16, <4>1, <4>2 DEF EndsSilently, main,
         Phase, Starting, Releasing, Released
    <3>3. CASE g # dma_chns[c]
      <4>1. channel[g] # c
        BY <3>3 DEF OwnsChannel
      <4> QED
        BY <2>0, <2>16, <3>1, <3>3, <4>1 DEF EndsSilently, Ended, TypeOK, handles, main,
           Phase, Starting, Releasing, Released, Prepared, Resting, Requested, Moving, Resulted
    <3> QED
      BY <3>2, <3>3
  <2>17. ASSUME NEW c \in Channels, NEW ok \in BOOLEAN, Interrupt(c, ok)
         PROVE Phase(g)'
    <3>1. /\ HasChannel(g) /\ channel' = channel /\ hw[c] = "moving"
          /\ dma_chns[c] \in Handles /\ channel[dma_chns[c]] = c
      BY <2>17, HandleOf DEF Interrupt, handles, HasChannel
    <3>2. CASE g = dma_chns[c]
      <4>1. ~Starting(g) /\ ~Releasing(g) /\ Moving(g) /\ ~(pc = "trigger" /\ cur = g)
        BY <2>0, <3>1, <3>2 DEF Phase, Prepared, Resting, Requested, Resulted,
           InFunction, Releasing
      <4>2. Resting(g)'
        BY <2>17, <3>1, <3>2, <4>1 DEF Interrupt, Ended, TypeOK, handles, Moving,
           Resting, Tells
      <4> QED
        BY <2>17, <4>1, <4>2 DEF Interrupt, main,
         Phase, Starting, Releasing, Released
    <3>3. CASE g # dma_chns[c]
      <4>1. channel[g] # c
        BY <3>3 DEF OwnsChannel
      <4> QED
        BY <2>0, <2>17, <3>1, <3>3, <4>1 DEF Interrupt, Ended, TypeOK, handles, main,
           Phase, Starting, Releasing, Released, Prepared, Resting, Requested, Moving, Resulted
    <3> QED
      BY <3>2, <3>3
  <2>19. CASE ReleaseForget
    <3>1. /\ HasChannel(g) /\ pc = "release" /\ cur \in Handles /\ HasChannel(cur)
          /\ g # cur /\ channel'[g] = channel[g]
      BY <2>19 DEF ReleaseForget, HasChannel, InFunction, TypeOK
    <3> QED
      BY <2>0, <2>19, <3>1 DEF ReleaseForget, TypeOK, Phase, Starting, Releasing, Released,
         Resting, Requested, Moving, Resulted
  <2>18. CASE UNCHANGED vars
    BY <2>0, <2>18 DEF vars, main, handles, HasChannel, Phase, Starting,
       Releasing, Released, Prepared,
       Resting, Requested, Moving, Resulted
  <2> QED
    BY <2>1, <2>2, <2>3, <2>4, <2>5, <2>6, <2>7, <2>8, <2>9, <2>10, <2>11, <2>12,
       <2>13, <2>14, <2>15, <2>16, <2>17, <2>18, <2>19
    DEF Next, Call, Function, Controller
<1> QED
  BY <1>1, <1>2, StructureHolds, PTL DEF Spec

\* DMA_BUSY means that a transfer is on its way or its result waits to be polled
\* (arc_udma.h:475), as long as no peripheral requests while its channel is being
\* started and no handle is checked that has no transfer.
THEOREM BusyIsTransfer == ASSUME Usage = {} PROVE Spec => []BusyMeansTransfer
<1>1. Phases => BusyMeansTransfer
  BY DEF Phases, Phase, Prepared, Resting, Requested, Moving, Resulted,
         Starting, BusyMeansTransfer
<1> QED
  BY <1>1, PhasesHold, PTL

\* Under the same assumption every other status tells what became of the last
\* start (arc_udma.h:464-465).
THEOREM StatusIsOutcome == ASSUME Usage = {} PROVE Spec => []StatusTellsOutcome
<1>1. Phases => StatusTellsOutcome
  BY DEF Phases, Phase, Resting, Requested, Moving, Resulted, StatusTellsOutcome,
         Released, Tells
<1> QED
  BY <1>1, PhasesHold, PTL
=============================================================================
