----------------------------- MODULE IpcProofs -----------------------------
(***************************************************************************)
(* Theorems about the ipc driver (Ipc.tla), for every number of channels,  *)
(* every set of messages and every layout of the exchange memory.          *)
(***************************************************************************)
EXTENDS Ipc, TLAPS

(* The inductive invariant.  A channel is taken from the free ones, so     *)
(* that one channel is never given to two messages; that the completion    *)
(* of a channel reports the message it carried needs the callbacks to      *)
(* agree with the registers; and that the head of the list finds a         *)
(* completion to wake it up needs the channels to be accounted for.        *)
IInv ==
  /\ TypeOK
  /\ ChannelOwnership
  /\ CallbackOwnership
  /\ NothingStranded

-----------------------------------------------------------------------------
(* Any non-empty set of channels has a greatest element, so that the       *)
(* downward search of ipc_alloc_channel ends at one.                       *)
LEMMA GreatestChannel ==
  ASSUME NEW S \in SUBSET Channels, S # {}
  PROVE  \E c \in S : \A d \in S : d <= c
<1>1. S \subseteq 0 .. 7
  BY ChannelAssumption DEF Channels
<1>2. CASE 7 \in S
  BY <1>1, <1>2
<1>3. CASE S \subseteq 0 .. 6 /\ 6 \in S
  BY <1>3
<1>4. CASE S \subseteq 0 .. 5 /\ 5 \in S
  BY <1>4
<1>5. CASE S \subseteq 0 .. 4 /\ 4 \in S
  BY <1>5
<1>6. CASE S \subseteq 0 .. 3 /\ 3 \in S
  BY <1>6
<1>7. CASE S \subseteq 0 .. 2 /\ 2 \in S
  BY <1>7
<1>8. CASE S \subseteq 0 .. 1 /\ 1 \in S
  BY <1>8
<1>9. CASE S \subseteq 0 .. 0
  <2>1. PICK c \in S : TRUE
    OBVIOUS
  <2>2. \A d \in S : d = 0
    BY <1>9
  <2>3. QED
    BY <2>1, <2>2
<1>10. QED
  BY <1>1, <1>2, <1>3, <1>4, <1>5, <1>6, <1>7, <1>8, <1>9

(* What ipc_alloc_channel returns: 0xff exactly when no free channel fits, *)
(* and otherwise a free channel that fits.                                 *)
LEMMA AllocReturns ==
  ASSUME NEW length \in Nat, NEW free \in SUBSET Channels
  PROVE  LET c == ipc_alloc_channel(length, free) IN
         \/ c = NO_CHANNEL /\ free \cap Fitting(length) = {}
         \/ c \in free /\ c \in Channels /\ c \in Fitting(length) /\ c # NO_CHANNEL
<1> DEFINE S == free \cap Fitting(length)
<1>1. NO_CHANNEL \notin Channels
  BY ChannelAssumption DEF NO_CHANNEL, Channels
<1>2. CASE S = {}
  BY <1>2 DEF ipc_alloc_channel
<1>3. CASE S # {}
  <2>1. \E c \in S : \A d \in S : d <= c
    BY <1>3, GreatestChannel
  <2>2. ipc_alloc_channel(length, free) \in S
    BY <1>3, <2>1 DEF ipc_alloc_channel
  <2>3. QED
    BY <1>1, <2>2
<1>4. QED
  BY <1>2, <1>3

-----------------------------------------------------------------------------
(* The part of the type invariant about the driver's own variables. *)
DriverType ==
  /\ available_buffer \subseteq Channels
  /\ tx_callback \in [Channels -> Messages \cup {None}]
  /\ ipc_msg_list \in Seq(Messages)
  /\ msg_out \in [Channels -> Messages \cup {None}]
  /\ buffer \in [Cells -> Messages \cup {None}]

(* ipc_insert_msg writes one register and keeps the types. *)
LEMMA InsertType ==
  ASSUME DriverType, NEW c \in Channels, NEW m \in Messages,
         ipc_insert_msg(c, m)
  PROVE  /\ msg_out' = [msg_out EXCEPT ![c] = m]
         /\ msg_out' \in [Channels -> Messages \cup {None}]
         /\ buffer' \in [Cells -> Messages \cup {None}]
         /\ InFlight' = InFlight \cup {c}
<1>1. msg_out' = [msg_out EXCEPT ![c] = m]
  BY DEF ipc_insert_msg
<1>2. msg_out' \in [Channels -> Messages \cup {None}]
  BY <1>1 DEF DriverType
<1>3. buffer' \in [Cells -> Messages \cup {None}]
  <2>1. CASE buffer' = buffer
    BY <2>1 DEF DriverType
  <2>2. CASE buffer' = [k \in Cells |-> IF k \in Extent(c, m) THEN m ELSE buffer[k]]
    BY <2>2 DEF DriverType
  <2>3. QED
    BY <2>1, <2>2 DEF ipc_insert_msg
<1>4. InFlight' = InFlight \cup {c}
  BY <1>1, MessageAssumption DEF InFlight, DriverType
<1>5. QED
  BY <1>1, <1>2, <1>3, <1>4

(* A message that is sent or queued keeps every channel with one owner. *)
LEMMA SendPreserves ==
  ASSUME IInv, NEW m \in Messages, ipc_msg_send(m),
         UNCHANGED <<status_out, isr_out, channel>>
  PROVE  DriverType' /\ ChannelOwnership' /\ CallbackOwnership' /\ NothingStranded'
<1> USE DEF IInv
<1> DEFINE c == ipc_alloc_channel(Length[m], available_buffer)
<1>0. Length[m] \in Nat /\ DriverType /\ available_buffer \subseteq Channels
  BY MessageAssumption DEF TypeOK, DriverType
<1>1. \/ c = NO_CHANNEL /\ available_buffer \cap Fitting(Length[m]) = {}
      \/ c \in available_buffer /\ c \in Channels
         /\ c \in Fitting(Length[m]) /\ c # NO_CHANNEL
  BY <1>0, AllocReturns
<1> HIDE DEF c
<1>2. CASE c = NO_CHANNEL
  <2>1. /\ ipc_msg_list' = Append(ipc_msg_list, m)
        /\ UNCHANGED <<available_buffer, tx_callback, msg_out, buffer>>
    BY <1>2 DEF ipc_msg_send, c
  <2>2. DriverType'
    BY <2>1, <1>0 DEF DriverType
  <2>3. ChannelOwnership' /\ CallbackOwnership'
    BY <2>1 DEF ChannelOwnership, CallbackOwnership, InFlight, Finished
  <2>4. InFlight \cup Finished # {}
    <3>1. 0 \in LoadChannels /\ 1 \in LoadChannels /\ LoadChannels \subseteq Channels
      BY ChannelAssumption DEF LoadChannels, Channels
    <3>2. 0 \in Fitting(Length[m]) /\ 1 \in Fitting(Length[m])
      BY <3>1 DEF Fitting
    <3>3. 0 \notin available_buffer /\ 1 \notin available_buffer
      BY <1>1, <1>2, <3>2
    <3>4. QED
      BY <3>1, <3>3 DEF ChannelOwnership
  <2>5. NothingStranded'
    BY <2>1, <2>4 DEF NothingStranded, InFlight, Finished
  <2>6. QED
    BY <2>2, <2>3, <2>5
<1>3. CASE c # NO_CHANNEL
  <2>1. /\ available_buffer' = available_buffer \ {c}
        /\ tx_callback' = [tx_callback EXCEPT ![c] = m]
        /\ ipc_insert_msg(c, m)
        /\ UNCHANGED ipc_msg_list
    BY <1>3 DEF ipc_msg_send, c
  <2>2. c \in available_buffer /\ c \in Channels /\ c \in Fitting(Length[m])
    BY <1>1, <1>3
  <2>3. /\ msg_out' = [msg_out EXCEPT ![c] = m]
        /\ msg_out' \in [Channels -> Messages \cup {None}]
        /\ buffer' \in [Cells -> Messages \cup {None}]
        /\ InFlight' = InFlight \cup {c}
    BY <1>0, <2>1, <2>2, InsertType
  <2>4. Finished' = Finished
    BY DEF Finished
  <2>5. DriverType'
    BY <1>0, <2>1, <2>2, <2>3 DEF DriverType
  <2>6. ChannelOwnership'
    BY <2>1, <2>2, <2>3, <2>4 DEF ChannelOwnership
  <2>7. CallbackOwnership'
    <3>1. c \notin InFlight /\ c \notin Finished
      BY <2>2 DEF ChannelOwnership
    <3>2. \A d \in Channels : tx_callback'[d] # None <=> d \in InFlight' \cup Finished'
      BY <1>0, <2>1, <2>2, <2>3, <2>4, MessageAssumption
      DEF CallbackOwnership, DriverType
    <3>3. \A d \in InFlight' : /\ tx_callback'[d] = msg_out'[d]
                              /\ d \in Fitting(Length[msg_out'[d]])
      BY <1>0, <2>1, <2>2, <2>3 DEF CallbackOwnership, DriverType, InFlight
    <3>4. QED
      BY <3>2, <3>3 DEF CallbackOwnership, Fitting
  <2>8. NothingStranded'
    BY <2>3 DEF NothingStranded
  <2>9. QED
    BY <2>5, <2>6, <2>7, <2>8
<1>4. QED
  BY <1>2, <1>3


(* A completion frees its channel, perhaps to give it to the head of the   *)
(* list at once; a list that is not empty keeps a completion to wait for.  *)
LEMMA CompletionPreserves ==
  ASSUME IInv, NEW c \in isr_out, ipc_free_and_next(c),
         isr_out' = isr_out \ {c}, UNCHANGED <<status_out, channel>>
  PROVE  DriverType' /\ ChannelOwnership' /\ CallbackOwnership' /\ NothingStranded'
<1> USE DEF IInv
<1> DEFINE free == available_buffer \cup {c}
           d == NextChannel(free)
           h == Head(ipc_msg_list)
<1>0. /\ DriverType /\ c \in Channels /\ free \subseteq Channels
      /\ c \notin available_buffer /\ c \notin InFlight
      /\ c \notin status_out /\ c # channel
  BY DEF TypeOK, DriverType, ChannelOwnership, Finished
<1>1. Finished' = Finished \ {c}
  BY <1>0 DEF Finished
<1>2. ASSUME ipc_msg_list # <<>>
      PROVE  /\ h \in Messages /\ Tail(ipc_msg_list) \in Seq(Messages)
             /\ \/ d = NO_CHANNEL /\ free \cap Fitting(Length[h]) = {}
                \/ d \in free /\ d \in Channels /\ d \in Fitting(Length[h]) /\ d # NO_CHANNEL
  <2>1. h \in Messages /\ Tail(ipc_msg_list) \in Seq(Messages)
    BY <1>0, <1>2 DEF DriverType
  <2>2. Length[h] \in Nat
    BY <2>1, MessageAssumption
  <2>3. QED
    BY <2>1, <2>2, <1>0, AllocReturns DEF NextChannel
<1> HIDE DEF d, h
<1>3. CASE HeadLeaves(free)
  <2>1. ipc_msg_list # <<>> /\ d # NO_CHANNEL
    BY <1>3 DEF HeadLeaves, d
  <2>2. /\ h \in Messages /\ Tail(ipc_msg_list) \in Seq(Messages)
        /\ d \in free /\ d \in Channels /\ d \in Fitting(Length[h])
    BY <1>2, <2>1
  <2>3. /\ available_buffer' = free \ {d}
        /\ ipc_msg_list' = Tail(ipc_msg_list)
        /\ tx_callback' = [tx_callback EXCEPT ![c] = None, ![d] = h]
        /\ ipc_insert_msg(d, h)
    BY <1>3 DEF ipc_free_and_next, d, h
  <2>4. /\ msg_out' = [msg_out EXCEPT ![d] = h]
        /\ msg_out' \in [Channels -> Messages \cup {None}]
        /\ buffer' \in [Cells -> Messages \cup {None}]
        /\ InFlight' = InFlight \cup {d}
    BY <1>0, <2>2, <2>3, InsertType
  <2>5. DriverType'
    BY <1>0, <2>2, <2>3, <2>4 DEF DriverType
  <2>6. ChannelOwnership'
    BY <1>0, <1>1, <2>2, <2>3, <2>4 DEF ChannelOwnership, Finished
  <2>7. CallbackOwnership'
    <3>1. d \notin InFlight
      BY <1>0, <2>2 DEF ChannelOwnership
    <3>2. \A e \in Channels :
            tx_callback'[e] = IF e = d THEN h ELSE IF e = c THEN None ELSE tx_callback[e]
      BY <1>0, <2>2, <2>3 DEF DriverType
    <3>3. d # c => d \notin Finished
      BY <2>2 DEF ChannelOwnership
    <3>4. \A e \in Channels : tx_callback'[e] # None <=> e \in InFlight' \cup Finished'
      BY <1>0, <1>1, <2>2, <2>4, <3>2, <3>3, MessageAssumption DEF CallbackOwnership
    <3>5. \A e \in InFlight' : /\ tx_callback'[e] = msg_out'[e]
                              /\ e \in Fitting(Length[msg_out'[e]])
      <4>1. \A e \in InFlight' : e \in Channels
        BY DEF InFlight
      <4>2. \A e \in Channels : msg_out'[e] = IF e = d THEN h ELSE msg_out[e]
        BY <1>0, <2>2, <2>4 DEF DriverType
      <4>3. QED
        BY <1>0, <2>2, <2>4, <3>2, <4>1, <4>2 DEF CallbackOwnership
    <3>6. QED
      BY <3>4, <3>5 DEF CallbackOwnership, Fitting
  <2>8. NothingStranded'
    BY <2>4 DEF NothingStranded
  <2>9. QED
    BY <2>5, <2>6, <2>7, <2>8
<1>4. CASE ~HeadLeaves(free)
  <2>1. /\ available_buffer' = free
        /\ tx_callback' = [tx_callback EXCEPT ![c] = None]
        /\ UNCHANGED <<ipc_msg_list, msg_out, buffer>>
    BY <1>4 DEF ipc_free_and_next
  <2>2. DriverType'
    BY <1>0, <2>1 DEF DriverType
  <2>3. InFlight' = InFlight
    BY <2>1 DEF InFlight
  <2>4. ChannelOwnership'
    BY <1>0, <1>1, <2>1, <2>3 DEF ChannelOwnership, Finished
  <2>5. CallbackOwnership'
    <3>1. \A e \in Channels : tx_callback'[e] = IF e = c THEN None ELSE tx_callback[e]
      BY <1>0, <2>1 DEF DriverType
    <3>2. \A e \in InFlight : e \in Channels /\ e # c /\ msg_out'[e] = msg_out[e]
      BY <1>0, <2>1 DEF InFlight
    <3>3. QED
      BY <1>0, <1>1, <2>3, <3>1, <3>2 DEF CallbackOwnership, Fitting
  <2>6. NothingStranded'
    <3> SUFFICES ASSUME ipc_msg_list # <<>>
                 PROVE  InFlight \cup (Finished \ {c}) # {}
      BY <1>1, <2>1, <2>3 DEF NothingStranded
    <3>1. h \in Messages /\ free \cap Fitting(Length[h]) = {}
      BY <1>2, <1>4 DEF HeadLeaves, d
    <3>2. 0 \in LoadChannels /\ 1 \in LoadChannels /\ LoadChannels \subseteq Channels
      BY ChannelAssumption DEF LoadChannels, Channels
    <3>3. 0 \notin free /\ 1 \notin free
      BY <3>1, <3>2 DEF Fitting
    <3>4. 0 # c /\ 1 # c
      BY <3>3
    <3>5. QED
      BY <3>2, <3>3, <3>4 DEF ChannelOwnership
  <2>7. QED
    BY <2>2, <2>4, <2>5, <2>6
<1>5. QED
  BY <1>3, <1>4


LEMMA InitEstablishes == Init => IInv
<1> SUFFICES ASSUME Init PROVE IInv
  OBVIOUS
<1> USE DEF Init
<1>1. TypeOK
  <2>1. NO_CHANNEL \in LoadChannels \cup {NO_CHANNEL} /\ <<>> \in Seq(Messages)
    OBVIOUS
  <2>2. QED
    BY <2>1 DEF TypeOK
<1>2. InFlight = {} /\ Finished = {} /\ NO_CHANNEL \notin Channels
  BY ChannelAssumption DEF InFlight, Finished, NO_CHANNEL, Channels
<1>3. ChannelOwnership
  BY <1>2 DEF ChannelOwnership
<1>4. CallbackOwnership
  BY <1>2 DEF CallbackOwnership
<1>5. NothingStranded
  BY DEF NothingStranded
<1>6. QED
  BY <1>1, <1>3, <1>4, <1>5 DEF IInv

LEMMA NextPreserves == IInv /\ [Next]_vars => IInv'
<1> SUFFICES ASSUME IInv, [Next]_vars PROVE IInv'
  OBVIOUS
<1> USE DEF IInv
<1>0. DriverType /\ TypeOK /\ NO_CHANNEL \notin Channels /\ LoadChannels \subseteq Channels
  BY ChannelAssumption DEF TypeOK, DriverType, NO_CHANNEL, Channels, LoadChannels
<1>1. ASSUME NEW m \in Messages, Send(m) PROVE IInv'
  <2>1. DriverType' /\ ChannelOwnership' /\ CallbackOwnership' /\ NothingStranded'
    BY <1>1, SendPreserves DEF Send
  <2>2. TypeOK'
    BY <1>0, <1>1, <2>1 DEF Send, TypeOK, DriverType, inputs
  <2>3. QED
    BY <2>1, <2>2
<1>2. CASE DirectAlloc
  <2>1. /\ channel = NO_CHANNEL
        /\ channel' \in available_buffer /\ channel' \in LoadChannels
        /\ available_buffer' = available_buffer \ {channel'}
        /\ UNCHANGED <<tx_callback, ipc_msg_list, msg_out, buffer, inputs,
                       status_out, isr_out, event>>
    BY <1>0, <1>2, AllocReturns DEF DirectAlloc, DriverType, Fitting
  <2>2. TypeOK'
    BY <1>0, <2>1 DEF TypeOK, inputs
  <2>3. InFlight' = InFlight /\ Finished' = Finished
    BY <2>1 DEF InFlight, Finished
  <2>4. ChannelOwnership'
    BY <1>0, <2>1, <2>3 DEF ChannelOwnership
  <2>5. CallbackOwnership' /\ NothingStranded'
    BY <2>1, <2>3 DEF CallbackOwnership, NothingStranded, Fitting
  <2>6. QED
    BY <2>2, <2>4, <2>5
<1>3. ASSUME NEW m \in Direct, DirectInsert(m) PROVE IInv'
  <2>1. m \in Messages /\ Length[m] > 0 /\ Length[m] \in Nat
    BY MessageAssumption
  <2>2. /\ channel \in Channels
        /\ tx_callback' = [tx_callback EXCEPT ![channel] = m]
        /\ ipc_insert_msg(channel, m) /\ channel' = NO_CHANNEL
        /\ UNCHANGED <<available_buffer, ipc_msg_list, inputs,
                       status_out, isr_out, event>>
    BY <1>0, <1>3 DEF DirectInsert, TypeOK
  <2>3. /\ msg_out' = [msg_out EXCEPT ![channel] = m]
        /\ msg_out' \in [Channels -> Messages \cup {None}]
        /\ buffer' \in [Cells -> Messages \cup {None}]
        /\ InFlight' = InFlight \cup {channel}
    BY <1>0, <2>1, <2>2, InsertType
  <2>4. TypeOK'
    BY <1>0, <2>1, <2>2, <2>3 DEF TypeOK, inputs
  <2>5. Finished' = Finished
    BY <2>2 DEF Finished
  <2>6. ChannelOwnership'
    <3>1. InFlight \cup Finished \subseteq Channels
      BY <1>0 DEF InFlight, Finished, TypeOK
    <3>2. QED
      BY <1>0, <2>2, <2>3, <2>5, <3>1 DEF ChannelOwnership, TypeOK
  <2>7. CallbackOwnership'
    <3>1. channel \notin InFlight \cup Finished
      BY DEF ChannelOwnership
    <3>2. \A c \in Channels : tx_callback'[c] = IF c = channel THEN m ELSE tx_callback[c]
      BY <1>0, <2>2 DEF DriverType
    <3>3. \A c \in Channels : msg_out'[c] = IF c = channel THEN m ELSE msg_out[c]
      BY <1>0, <2>2, <2>3 DEF DriverType
    <3>4. \A c \in Channels : tx_callback'[c] # None <=> c \in InFlight' \cup Finished'
      BY <2>1, <2>2, <2>3, <2>5, <3>2, MessageAssumption DEF CallbackOwnership
    <3>5. channel \in LoadChannels
      BY <1>3 DEF DirectInsert, TypeOK
    <3>6. \A c \in InFlight' : /\ c \in Channels
                              /\ tx_callback'[c] = msg_out'[c]
                              /\ c \in Fitting(Length[msg_out'[c]])
      BY <2>1, <2>2, <2>3, <3>2, <3>3, <3>5 DEF CallbackOwnership, Fitting, InFlight
    <3>7. QED
      BY <3>4, <3>6 DEF CallbackOwnership, Fitting
  <2>8. NothingStranded'
    BY <2>3 DEF NothingStranded
  <2>9. QED
    BY <2>4, <2>6, <2>7, <2>8
<1>4. CASE DirectFree
  <2>1. /\ channel \in Channels
        /\ available_buffer' = available_buffer \cup {channel}
        /\ tx_callback' = [tx_callback EXCEPT ![channel] = None]
        /\ channel' = NO_CHANNEL
        /\ UNCHANGED <<ipc_msg_list, msg_out, buffer, inputs,
                       status_out, isr_out, event>>
    BY <1>0, <1>4 DEF DirectFree, TypeOK
  <2>2. TypeOK'
    BY <1>0, <2>1 DEF TypeOK, inputs
  <2>3. InFlight' = InFlight /\ Finished' = Finished
    BY <2>1 DEF InFlight, Finished
  <2>4. ChannelOwnership'
    <3>1. InFlight \cup Finished \subseteq Channels
      BY <1>0 DEF InFlight, Finished, TypeOK
    <3>2. QED
      BY <1>0, <2>1, <2>3, <3>1 DEF ChannelOwnership, TypeOK
  <2>5. CallbackOwnership'
    <3>1. channel \notin InFlight \cup Finished
      BY DEF ChannelOwnership
    <3>2. \A c \in Channels : tx_callback'[c] = IF c = channel THEN None ELSE tx_callback[c]
      BY <1>0, <2>1 DEF DriverType
    <3>3. \A c \in InFlight : c \in Channels /\ c # channel /\ msg_out'[c] = msg_out[c]
      BY <2>1, <3>1 DEF InFlight
    <3>4. QED
      BY <2>3, <3>1, <3>2, <3>3 DEF CallbackOwnership, Fitting
  <2>6. NothingStranded'
    BY <2>1, <2>3 DEF NothingStranded
  <2>7. QED
    BY <2>2, <2>4, <2>5, <2>6
<1>5. CASE IsrEnter
  <2>1. /\ isr_out = {} /\ isr_in = {}
        /\ isr_out' = status_out /\ status_out' = {}
        /\ isr_in' = status_in /\ status_in' = {}
        /\ UNCHANGED <<available_buffer, tx_callback, ipc_msg_list, msg_out,
                       buffer, msg_in, channel, event>>
    BY <1>5 DEF IsrEnter, InIsr, driver
  <2>2. TypeOK'
    BY <1>0, <2>1 DEF TypeOK
  <2>3. InFlight' = InFlight /\ Finished' = Finished
    BY <2>1 DEF InFlight, Finished
  <2>4. ChannelOwnership'
    BY <2>1, <2>3 DEF ChannelOwnership
  <2>5. CallbackOwnership' /\ NothingStranded'
    BY <2>1, <2>3 DEF CallbackOwnership, NothingStranded, Fitting
  <2>6. QED
    BY <2>2, <2>4, <2>5
<1>6. ASSUME NEW c \in Channels, IsrOut(c) PROVE IInv'
  <2>1. /\ c \in isr_out /\ isr_out' = isr_out \ {c} /\ ipc_free_and_next(c)
        /\ event' = <<"completed", tx_callback[c]>>
        /\ UNCHANGED <<msg_in, status_in, isr_in, status_out, channel>>
    BY <1>6 DEF IsrOut, inputs
  <2>2. DriverType' /\ ChannelOwnership' /\ CallbackOwnership' /\ NothingStranded'
    BY <2>1, CompletionPreserves
  <2>3. TypeOK'
    BY <1>0, <2>1, <2>2 DEF TypeOK, DriverType
  <2>4. QED
    BY <2>2, <2>3
<1>7. ASSUME NEW c \in RxChannels, IsrIn(c) PROVE IInv'
  <2>1. /\ isr_in' = isr_in \ {c} /\ msg_in' = [msg_in EXCEPT ![c] = FALSE]
        /\ UNCHANGED <<status_out, status_in, isr_out, channel, event>>
        /\ UNCHANGED driver \/ \E m \in Messages : ipc_msg_send(m)
    BY <1>7 DEF IsrIn
  <2>2. DriverType' /\ ChannelOwnership' /\ CallbackOwnership' /\ NothingStranded'
    <3>1. CASE UNCHANGED driver
      BY <1>0, <2>1, <3>1 DEF driver, DriverType, ChannelOwnership,
         CallbackOwnership, NothingStranded, InFlight, Finished, Fitting
    <3>2. CASE \E m \in Messages : ipc_msg_send(m)
      BY <2>1, <3>2, SendPreserves
    <3>3. QED
      BY <2>1, <3>1, <3>2
  <2>3. TypeOK'
    BY <1>0, <2>1, <2>2 DEF TypeOK, DriverType
  <2>4. QED
    BY <2>2, <2>3
<1>8. ASSUME NEW c \in Channels, McuReceive(c) PROVE IInv'
  <2>1. /\ c \in InFlight /\ msg_out' = [msg_out EXCEPT ![c] = None]
        /\ status_out' = status_out \cup {c}
        /\ event' = <<"received", Content(c)>>
        /\ UNCHANGED <<available_buffer, tx_callback, ipc_msg_list, buffer,
                       msg_in, status_in, isr_in, isr_out, channel>>
    BY <1>8 DEF McuReceive, InFlight, inputs
  <2>2. TypeOK'
    <3>1. Content(c) \in Messages \cup {None}
      BY <1>0 DEF Content, DriverType
    <3>2. QED
      BY <1>0, <2>1, <3>1 DEF TypeOK
  <2>3. InFlight' = InFlight \ {c} /\ Finished' = Finished \cup {c}
    BY <1>0, <2>1 DEF InFlight, Finished, DriverType
  <2>4. ChannelOwnership'
    BY <2>1, <2>3 DEF ChannelOwnership, Finished
  <2>5. CallbackOwnership'
    <3>1. \A d \in InFlight' : d # c /\ d \in InFlight /\ msg_out'[d] = msg_out[d]
      BY <1>0, <2>1, <2>3 DEF DriverType, InFlight
    <3>2. QED
      BY <2>1, <2>3, <3>1 DEF CallbackOwnership, Fitting
  <2>6. NothingStranded'
    BY <2>3 DEF NothingStranded
  <2>7. QED
    BY <2>2, <2>4, <2>5, <2>6
<1>9. ASSUME NEW c \in RxChannels, McuPost(c) PROVE IInv'
  <2>1. /\ msg_in' = [msg_in EXCEPT ![c] = TRUE] /\ status_in' = status_in \cup {c}
        /\ UNCHANGED <<available_buffer, tx_callback, ipc_msg_list, msg_out,
                       buffer, status_out, isr_out, isr_in, channel, event>>
    BY <1>9 DEF McuPost, driver
  <2>2. TypeOK'
    BY <1>0, <2>1 DEF TypeOK
  <2>3. QED
    BY <2>1, <2>2 DEF ChannelOwnership, CallbackOwnership, NothingStranded,
       InFlight, Finished, Fitting
<1>10. CASE UNCHANGED vars
  BY <1>0, <1>10 DEF vars, TypeOK, ChannelOwnership, CallbackOwnership,
     NothingStranded, InFlight, Finished, Fitting
<1>11. QED
  BY <1>1, <1>2, <1>3, <1>4, <1>5, <1>6, <1>7, <1>8, <1>9, <1>10
  DEF Next, MainLoop, Interrupt, Mcu

LEMMA Inductive == SafeSpec => []IInv
  BY InitEstablishes, NextPreserves, PTL DEF SafeSpec

-----------------------------------------------------------------------------
(* The variables of ipc.c, its registers and its clients keep their types. *)
THEOREM TypeCorrect == SafeSpec => []TypeOK
<1>1. IInv => TypeOK
  BY DEF IInv
<1>2. QED
  BY <1>1, Inductive, PTL

(* ipc_alloc_channel, ipc_insert_msg, ipc_free_channel and ipc_isr never   *)
(* give a channel to two messages and never lose one.                      *)
THEOREM OneOwnerPerChannel == SafeSpec => []ChannelOwnership
<1>1. IInv => ChannelOwnership
  BY DEF IInv
<1>2. QED
  BY <1>1, Inductive, PTL

(* The callback that ipc_isr calls is that of the message that the channel *)
(* carried, and payloads travel on channels that own a buffer.             *)
THEOREM CallbackBelongs == SafeSpec => []CallbackOwnership
<1>1. IInv => CallbackOwnership
  BY DEF IInv
<1>2. QED
  BY <1>1, Inductive, PTL

(* With two payload channels or more, a message waits in ipc_msg_list only *)
(* while a completion is still to come.                                    *)
THEOREM ListIsNeverStranded == SafeSpec => []NothingStranded
<1>1. IInv => NothingStranded
  BY DEF IInv
<1>2. QED
  BY <1>1, Inductive, PTL


-----------------------------------------------------------------------------
(* The DSP never writes a register that the MCU has not read: no step of   *)
(* the driver or of a client changes the message of a tagged register.     *)
THEOREM RegistersNotOverwritten == SafeSpec => NoOverwrite
<1> DEFINE Kept == \A c \in InFlight : msg_out'[c] \in {msg_out[c], None}
<1>1. IInv /\ [Next]_vars => [Kept]_vars
  <2> SUFFICES ASSUME IInv, Next, NEW c \in InFlight
               PROVE  msg_out'[c] \in {msg_out[c], None}
    OBVIOUS
  <2> USE DEF IInv
  <2>0. DriverType /\ c \in Channels /\ c \notin available_buffer /\ c \notin Finished
        /\ c # channel
    BY DEF TypeOK, DriverType, InFlight, ChannelOwnership
  <2>1. ASSUME NEW m \in Messages, ipc_msg_send(m)
        PROVE  msg_out'[c] = msg_out[c]
    <3> DEFINE d == ipc_alloc_channel(Length[m], available_buffer)
    <3>1. d = NO_CHANNEL \/ d \in available_buffer
      BY <2>0, AllocReturns, MessageAssumption DEF DriverType
    <3>2. QED
      BY <2>0, <2>1, <3>1 DEF ipc_msg_send, ipc_insert_msg, DriverType
  <2>2. ASSUME NEW d \in isr_out, ipc_free_and_next(d)
        PROVE  msg_out'[c] = msg_out[c]
    <3> DEFINE free == available_buffer \cup {d}
    <3>1. c # d /\ free \subseteq Channels /\ c \notin free
      BY <2>0 DEF Finished, TypeOK
    <3>2. HeadLeaves(free) => NextChannel(free) \in free
      <4> SUFFICES ASSUME HeadLeaves(free)
                   PROVE  NextChannel(free) \in free
        OBVIOUS
      <4>1. Head(ipc_msg_list) \in Messages
        BY <2>0 DEF DriverType, HeadLeaves
      <4>2. QED
        BY <4>1, <3>1, AllocReturns, MessageAssumption DEF HeadLeaves, NextChannel
    <3>3. QED
      BY <2>0, <2>2, <3>1, <3>2 DEF ipc_free_and_next, ipc_insert_msg, DriverType
  <2>3. CASE MainLoop
    BY <2>0, <2>1, <2>3
    DEF MainLoop, Send, DirectAlloc, DirectInsert, DirectFree, ipc_insert_msg, DriverType
  <2>4. CASE Interrupt
    BY <2>0, <2>1, <2>2, <2>4 DEF Interrupt, IsrEnter, IsrOut, IsrIn, driver
  <2>5. CASE Mcu
    BY <2>0, <2>5 DEF Mcu, McuReceive, McuPost, driver, DriverType
  <2>6. QED
    BY <2>3, <2>4, <2>5 DEF Next
<1>2. QED
  BY <1>1, Inductive, PTL DEF SafeSpec, NoOverwrite

-----------------------------------------------------------------------------
(* No message of the MCU is forgotten or handled twice: ipc_isr clears the *)
(* status bits before it looks at the registers, app_ipc_rx clears the tag *)
(* after it.                                                               *)
THEOREM InterruptsAreNotLost == SafeSpec => []NoLostInterrupt
<1>1. Init => NoLostInterrupt
  BY DEF Init, NoLostInterrupt
<1>2. TypeOK /\ NoLostInterrupt /\ [Next]_vars => NoLostInterrupt'
  <2> SUFFICES ASSUME TypeOK, NoLostInterrupt, [Next]_vars
               PROVE  NoLostInterrupt'
    OBVIOUS
  <2> USE DEF NoLostInterrupt, TypeOK
  <2>1. CASE MainLoop
    BY <2>1 DEF MainLoop, Send, DirectAlloc, DirectInsert, DirectFree, inputs
  <2>2. CASE IsrEnter
    BY <2>2 DEF IsrEnter, InIsr
  <2>3. ASSUME NEW c \in Channels, IsrOut(c) PROVE NoLostInterrupt'
    BY <2>3 DEF IsrOut, inputs
  <2>4. ASSUME NEW c \in RxChannels, IsrIn(c) PROVE NoLostInterrupt'
    BY <2>4 DEF IsrIn
  <2>5. ASSUME NEW c \in Channels, McuReceive(c) PROVE NoLostInterrupt'
    BY <2>5 DEF McuReceive, inputs
  <2>6. ASSUME NEW c \in RxChannels, McuPost(c) PROVE NoLostInterrupt'
    BY <2>6 DEF McuPost
  <2>7. CASE UNCHANGED vars
    BY <2>7 DEF vars
  <2>8. QED
    BY <2>1, <2>2, <2>3, <2>4, <2>5, <2>6, <2>7 DEF Next, Interrupt, Mcu
<1>3. QED
  BY <1>1, <1>2, TypeCorrect, PTL DEF SafeSpec


-----------------------------------------------------------------------------
(* What Append and Tail do to the list, element by element. *)
LEMMA ListFacts ==
  ASSUME NEW s \in Seq(Messages), NEW m \in Messages
  PROVE  /\ Len(s) \in Nat
         /\ Append(s, m) \in Seq(Messages) /\ Len(Append(s, m)) = Len(s) + 1
         /\ \A i \in 1 .. Len(s) + 1 : Append(s, m)[i] = IF i = Len(s) + 1 THEN m ELSE s[i]
         /\ s # <<>> =>
              /\ Len(s) > 0 /\ Head(s) = s[1] /\ Head(s) \in Messages
              /\ Tail(s) \in Seq(Messages) /\ Len(Tail(s)) = Len(s) - 1
              /\ \A i \in 1 .. Len(s) - 1 : Tail(s)[i] = s[i + 1]
  OBVIOUS

(* An idle message that is sent or queued is then in one place. *)
LEMMA SendOnePlace ==
  ASSUME IInv, OnePlace, NEW m \in Messages, Idle(m), ipc_msg_send(m)
  PROVE  OnePlace'
<1> DEFINE c == ipc_alloc_channel(Length[m], available_buffer)
<1>0. /\ DriverType /\ Len(ipc_msg_list) \in Nat
      /\ \A i \in 1 .. Len(ipc_msg_list) : ipc_msg_list[i] # m
      /\ \A d \in Channels : tx_callback[d] # m
      /\ m # None
  BY MessageAssumption DEF IInv, TypeOK, DriverType, Idle, Waiting, Carried
<1>1. c = NO_CHANNEL \/ c \in Channels
  BY <1>0, AllocReturns, MessageAssumption DEF DriverType
<1> HIDE DEF c
<1>2. CASE c = NO_CHANNEL
  <2>1. ipc_msg_list' = Append(ipc_msg_list, m) /\ tx_callback' = tx_callback
    BY <1>2 DEF ipc_msg_send, c
  <2>2. /\ Len(ipc_msg_list') = Len(ipc_msg_list) + 1
        /\ \A i \in 1 .. Len(ipc_msg_list) + 1 :
             ipc_msg_list'[i] = IF i = Len(ipc_msg_list) + 1 THEN m ELSE ipc_msg_list[i]
    BY <1>0, <2>1, ListFacts DEF DriverType
  <2> HIDE DEF c
  <2>3. \A n \in Messages : Waiting(n)' => Waiting(n) \/ n = m
    BY <1>0, <2>2 DEF Waiting
  <2>4. \A n \in Messages : Carried(n)' <=> Carried(n)
    BY <2>1 DEF Carried
  <2>5. ~Carried(m)
    BY DEF Idle
  <2>6. \A i, j \in 1 .. Len(ipc_msg_list') : ipc_msg_list'[i] = ipc_msg_list'[j] => i = j
    BY <1>0, <2>2 DEF OnePlace
  <2>7. QED
    BY <2>1, <2>3, <2>4, <2>5, <2>6 DEF OnePlace
<1>3. CASE c # NO_CHANNEL
  <2>1. ipc_msg_list' = ipc_msg_list /\ tx_callback' = [tx_callback EXCEPT ![c] = m]
    BY <1>3 DEF ipc_msg_send, c
  <2>2. \A d \in Channels : tx_callback'[d] = IF d = c THEN m ELSE tx_callback[d]
    BY <1>0, <1>1, <1>3, <2>1 DEF DriverType
  <2>3. \A n \in Messages : Waiting(n)' <=> Waiting(n)
    BY <2>1 DEF Waiting
  <2>4. \A n \in Messages : Carried(n)' => Carried(n) \/ n = m
    BY <2>2 DEF Carried
  <2>5. ~Waiting(m)
    BY DEF Idle
  <2>6. QED
    BY <1>0, <2>1, <2>2, <2>3, <2>4, <2>5 DEF OnePlace
<1>4. QED
  BY <1>2, <1>3

(* A completion drops the message of its channel and may move the head of  *)
(* the list to a channel.                                                  *)
LEMMA CompletionOnePlace ==
  ASSUME IInv, OnePlace, NEW c \in isr_out, ipc_free_and_next(c)
  PROVE  OnePlace'
<1> DEFINE free == available_buffer \cup {c}
           d == NextChannel(free)
           h == Head(ipc_msg_list)
<1>0. DriverType /\ c \in Channels /\ free \subseteq Channels
  BY DEF IInv, TypeOK, DriverType
<1>1. CASE HeadLeaves(free)
  <2>1. ipc_msg_list # <<>> /\ d # NO_CHANNEL
    BY <1>1 DEF HeadLeaves
  <2>2. /\ Len(ipc_msg_list) \in Nat /\ Len(ipc_msg_list) > 0
        /\ h = ipc_msg_list[1] /\ h \in Messages
        /\ Len(Tail(ipc_msg_list)) = Len(ipc_msg_list) - 1
        /\ \A i \in 1 .. Len(ipc_msg_list) - 1 : Tail(ipc_msg_list)[i] = ipc_msg_list[i + 1]
    BY <1>0, <2>1, ListFacts, MessageAssumption DEF DriverType
  <2>3. d \in Channels
    BY <1>0, <2>1, <2>2, AllocReturns, MessageAssumption DEF NextChannel
  <2> HIDE DEF d, h
  <2>4. /\ ipc_msg_list' = Tail(ipc_msg_list)
        /\ tx_callback' = [tx_callback EXCEPT ![c] = None, ![d] = h]
    BY <1>1 DEF ipc_free_and_next, d, h
  <2>5. \A e \in Channels :
          tx_callback'[e] = IF e = d THEN h ELSE IF e = c THEN None ELSE tx_callback[e]
    BY <1>0, <2>3, <2>4 DEF DriverType
  <2>6. \A e \in Channels : tx_callback[e] # h
    BY <2>2 DEF OnePlace, Waiting, Carried
  <2>7. \A n \in Messages : Waiting(n)' => Waiting(n) /\ n # h
    BY <2>2, <2>4 DEF Waiting, OnePlace
  <2>8. \A n \in Messages : Carried(n)' => Carried(n) \/ n = h
    BY <1>0, <2>5, MessageAssumption DEF Carried
  <2>9. \A i, j \in 1 .. Len(ipc_msg_list') : ipc_msg_list'[i] = ipc_msg_list'[j] => i = j
    BY <2>2, <2>4 DEF OnePlace
  <2>10. \A e, f \in Channels : tx_callback'[e] = tx_callback'[f] /\ tx_callback'[e] # None => e = f
    BY <2>5, <2>6 DEF OnePlace
  <2>11. QED
    BY <2>7, <2>8, <2>9, <2>10 DEF OnePlace
<1>2. CASE ~HeadLeaves(free)
  <2>1. ipc_msg_list' = ipc_msg_list /\ tx_callback' = [tx_callback EXCEPT ![c] = None]
    BY <1>2 DEF ipc_free_and_next
  <2>2. \A e \in Channels : tx_callback'[e] = IF e = c THEN None ELSE tx_callback[e]
    BY <1>0, <2>1 DEF DriverType
  <2>3. \A n \in Messages : (Waiting(n)' <=> Waiting(n)) /\ (Carried(n)' => Carried(n))
    BY <2>1, <2>2, MessageAssumption DEF Waiting, Carried
  <2>4. QED
    BY <2>1, <2>2, <2>3 DEF OnePlace
<1>3. QED
  BY <1>1, <1>2

(* A message is never duplicated between the list and the channels. *)
THEOREM MessagesAreNotDuplicated == SafeSpec => []OnePlace
<1>1. Init => OnePlace
  BY DEF Init, OnePlace, Waiting, Carried
<1>2. IInv /\ OnePlace /\ [Next]_vars => OnePlace'
  <2> SUFFICES ASSUME IInv, OnePlace, [Next]_vars PROVE OnePlace'
    OBVIOUS
  <2>0. DriverType /\ LoadChannels \subseteq Channels /\ NO_CHANNEL \notin Channels
    BY ChannelAssumption
    DEF IInv, TypeOK, DriverType, LoadChannels, Channels, NO_CHANNEL
  <2>1. ASSUME UNCHANGED <<tx_callback, ipc_msg_list>> PROVE OnePlace'
    BY <2>1 DEF OnePlace, Waiting, Carried
  <2>2. ASSUME NEW m \in Messages, Send(m) PROVE OnePlace'
    BY <2>2, SendOnePlace DEF Send
  <2>3. ASSUME NEW m \in Direct, DirectInsert(m) PROVE OnePlace'
    <3>1. /\ m \in Messages /\ channel \in Channels /\ Idle(m)
          /\ tx_callback' = [tx_callback EXCEPT ![channel] = m]
          /\ UNCHANGED ipc_msg_list
      BY <2>0, <2>3, MessageAssumption DEF DirectInsert, IInv, TypeOK
    <3>2. \A d \in Channels : tx_callback'[d] = IF d = channel THEN m ELSE tx_callback[d]
      BY <2>0, <3>1 DEF DriverType
    <3>3. \A n \in Messages : Waiting(n)' <=> Waiting(n)
      BY <3>1 DEF Waiting
    <3>4. \A n \in Messages : Carried(n)' => Carried(n) \/ n = m
      BY <3>2 DEF Carried
    <3>5. \A d \in Channels : tx_callback[d] # m
      BY <3>1 DEF Idle, Carried
    <3>6. QED
      BY <3>1, <3>2, <3>3, <3>4, <3>5 DEF OnePlace, Idle
  <2>4. CASE DirectFree
    <3>1. /\ channel \in Channels
          /\ tx_callback' = [tx_callback EXCEPT ![channel] = None]
          /\ UNCHANGED ipc_msg_list
      BY <2>0, <2>4 DEF DirectFree, IInv, TypeOK
    <3>2. \A e \in Channels : tx_callback'[e] = IF e = channel THEN None ELSE tx_callback[e]
      BY <2>0, <3>1 DEF DriverType
    <3>3. \A n \in Messages : (Waiting(n)' <=> Waiting(n)) /\ (Carried(n)' => Carried(n))
      BY <3>1, <3>2, MessageAssumption DEF Waiting, Carried
    <3>4. QED
      BY <3>1, <3>2, <3>3 DEF OnePlace
  <2>5. CASE Interrupt
    BY <2>1, <2>5, SendOnePlace, CompletionOnePlace
    DEF Interrupt, IsrEnter, IsrOut, IsrIn, driver
  <2>6. CASE Mcu
    BY <2>1, <2>6 DEF Mcu, McuReceive, McuPost, driver
  <2>7. CASE DirectAlloc \/ UNCHANGED vars
    BY <2>1, <2>7 DEF DirectAlloc, vars
  <2>8. QED
    BY <2>2, <2>3, <2>4, <2>5, <2>6, <2>7 DEF Next, MainLoop
<1>3. QED
  BY <1>1, <1>2, Inductive, PTL DEF SafeSpec

(* What Send, DirectInsert and ipc_isr leave behind is of the right type,  *)
(* with each message in the list or in a channel, once.                    *)
THEOREM DriverIsConsistent == SafeSpec => []DriverInv
<1>1. TypeOK /\ OnePlace => DriverInv
  BY DEF DriverInv
<1>2. QED
  BY <1>1, TypeCorrect, MessagesAreNotDuplicated, PTL

-----------------------------------------------------------------------------
(* When payloads fit, the buffers of two channels share no cell. *)
LEMMA ExtentsDisjoint ==
  ASSUME PayloadsFit, NEW c \in LoadChannels, NEW d \in LoadChannels, c # d,
         NEW m \in Messages, NEW n \in Messages
  PROVE  Extent(c, m) \cap Extent(d, n) = {}
<1>1. /\ ipc_buffer_offset[c] \in Nat /\ ipc_buffer_offset[d] \in Nat
      /\ Length[m] \in Nat /\ Length[n] \in Nat /\ Cells \subseteq Nat
  BY BufferAssumption, MessageAssumption
<1>2. \/ ipc_buffer_offset[c] + Length[m] <= ipc_buffer_offset[d]
      \/ ipc_buffer_offset[d] + Length[n] <= ipc_buffer_offset[c]
  BY DEF PayloadsFit
<1>3. ASSUME NEW k \in Cells, k \in Extent(c, m), k \in Extent(d, n) PROVE FALSE
  <2>1. /\ ipc_buffer_offset[c] <= k /\ k < ipc_buffer_offset[c] + Length[m]
        /\ ipc_buffer_offset[d] <= k /\ k < ipc_buffer_offset[d] + Length[n]
        /\ k \in Nat
    BY <1>1, <1>3 DEF Extent
  <2>2. QED
    BY <1>1, <1>2, <2>1
<1>4. QED
  BY <1>3 DEF Extent

(* Writing the payload of one channel leaves the others as they were. *)
LEMMA InsertKeepsPayloads ==
  ASSUME PayloadsFit, IInv, PayloadIntact,
         NEW c \in Channels \ InFlight, NEW m \in Messages,
         c \in Fitting(Length[m]), ipc_insert_msg(c, m)
  PROVE  PayloadIntact'
<1>1. DriverType /\ Length[m] \in Nat
  BY MessageAssumption DEF IInv, TypeOK, DriverType
<1>2. \A d \in Channels : msg_out'[d] = IF d = c THEN m ELSE msg_out[d]
  BY <1>1 DEF ipc_insert_msg, DriverType
<1>3. InFlight' = InFlight \cup {c}
  BY <1>1, InsertType
<1>4. Content(c)' = m
  BY <1>1, <1>2 DEF ipc_insert_msg, Content, Extent
<1>5. ASSUME NEW d \in InFlight PROVE Content(d)' = msg_out[d]
  <2>1. /\ d \in Channels /\ d # c /\ msg_out[d] \in Messages
        /\ Content(d) = msg_out[d] /\ msg_out'[d] = msg_out[d]
        /\ Length[msg_out[d]] \in Nat
    BY <1>1, <1>2, MessageAssumption DEF InFlight, PayloadIntact, DriverType
  <2>2. CASE Length[msg_out[d]] = 0 \/ Length[m] = 0
    BY <1>1, <2>1, <2>2 DEF Content, ipc_insert_msg, Extent
  <2>3. CASE Length[msg_out[d]] # 0 /\ Length[m] # 0
    <3>1. d \in LoadChannels /\ c \in LoadChannels
      BY <2>3 DEF IInv, CallbackOwnership, Fitting
    <3>2. Extent(c, m) \cap Extent(d, msg_out[d]) = {}
      BY <2>1, <3>1, ExtentsDisjoint
    <3>3. \A k \in Extent(d, msg_out[d]) : k \in Cells /\ buffer[k] = msg_out[d]
      BY <2>1, <2>3, MessageAssumption DEF Content, Extent
    <3>4. \A k \in Extent(d, msg_out[d]) : buffer'[k] = buffer[k]
      BY <2>3, <3>2, <3>3 DEF ipc_insert_msg
    <3>5. Extent(d, msg_out'[d]) = Extent(d, msg_out[d])
      BY <2>1
    <3>6. QED
      BY <2>1, <3>3, <3>4 DEF Content, Extent
  <2>4. QED
    BY <2>2, <2>3
<1>6. QED
  BY <1>2, <1>3, <1>4, <1>5 DEF PayloadIntact, InFlight

(* The payload of a message in flight is not touched before the MCU reads  *)
(* it, provided that payloads fit their buffers.                           *)
THEOREM PayloadsStayIntact == SafeSpec /\ PayloadsFit => []PayloadIntact
<1>1. Init => PayloadIntact
  BY DEF Init, PayloadIntact, InFlight
<1>2. IInv /\ PayloadsFit /\ PayloadIntact /\ [Next]_vars
        => PayloadsFit' /\ PayloadIntact'
  <2> SUFFICES ASSUME IInv, PayloadsFit, PayloadIntact, [Next]_vars
               PROVE  PayloadIntact'
    BY DEF PayloadsFit
  <2>0. /\ DriverType /\ LoadChannels \subseteq Channels
        /\ NO_CHANNEL \notin Channels /\ channel \notin InFlight
        /\ isr_out \subseteq Channels
        /\ \A c \in available_buffer \cup isr_out : c \notin InFlight
    BY ChannelAssumption
    DEF IInv, TypeOK, ChannelOwnership, Finished, DriverType, LoadChannels, Channels, NO_CHANNEL
  <2>1. ASSUME UNCHANGED <<msg_out, buffer>> PROVE PayloadIntact'
    BY <2>1 DEF PayloadIntact, InFlight, Content, Extent
  <2>2. ASSUME NEW m \in Messages, ipc_msg_send(m) PROVE PayloadIntact'
    <3> DEFINE c == ipc_alloc_channel(Length[m], available_buffer)
    <3>1. c = NO_CHANNEL \/ (c \in available_buffer /\ c \in Channels /\ c \in Fitting(Length[m]))
      BY <2>0, AllocReturns, MessageAssumption DEF DriverType
    <3>2. (c \in Channels \ InFlight /\ ipc_insert_msg(c, m)) \/ UNCHANGED <<msg_out, buffer>>
      BY <2>0, <2>2, <3>1 DEF ipc_msg_send
    <3> HIDE DEF c
    <3>3. QED
      BY <2>0, <2>1, <3>1, <3>2, InsertKeepsPayloads
  <2>3. ASSUME NEW c \in isr_out, ipc_free_and_next(c) PROVE PayloadIntact'
    <3> DEFINE free == available_buffer \cup {c}
               d == NextChannel(free)
               h == Head(ipc_msg_list)
    <3>1. CASE HeadLeaves(free)
      <4>1. h \in Messages /\ Length[h] \in Nat /\ free \subseteq Channels
        BY <2>0, <3>1, MessageAssumption DEF HeadLeaves, DriverType
      <4>2. d \in free /\ d \in Channels /\ d \in Fitting(Length[h])
        BY <3>1, <4>1, AllocReturns DEF HeadLeaves, NextChannel
      <4>3. ipc_insert_msg(d, h)
        BY <2>3, <3>1 DEF ipc_free_and_next
      <4> HIDE DEF d, h
      <4>4. QED
        BY <2>0, <4>1, <4>2, <4>3, InsertKeepsPayloads
    <3>2. CASE ~HeadLeaves(free)
      BY <2>1, <2>3, <3>2 DEF ipc_free_and_next
    <3>3. QED
      BY <3>1, <3>2
  <2>4. ASSUME NEW m \in Direct, DirectInsert(m) PROVE PayloadIntact'
    <3>1. m \in Messages /\ channel \in LoadChannels /\ ipc_insert_msg(channel, m)
      BY <2>4, MessageAssumption DEF DirectInsert, IInv, TypeOK
    <3>2. channel \in Fitting(Length[m])
      BY <2>0, <3>1 DEF Fitting
    <3>3. QED
      BY <2>0, <3>1, <3>2, InsertKeepsPayloads
  <2>5. ASSUME NEW c \in Channels, McuReceive(c) PROVE PayloadIntact'
    <3>1. /\ InFlight' = InFlight \ {c}
          /\ \A d \in InFlight' : msg_out'[d] = msg_out[d]
          /\ buffer' = buffer
      BY <2>0, <2>5 DEF McuReceive, InFlight, DriverType
    <3>2. QED
      BY <3>1 DEF PayloadIntact, Content, Extent
  <2>6. CASE Interrupt
    BY <2>1, <2>2, <2>3, <2>6 DEF Interrupt, IsrEnter, IsrOut, IsrIn, driver
  <2>7. CASE UNCHANGED vars \/ DirectAlloc \/ DirectFree \/ \E c \in RxChannels : McuPost(c)
    BY <2>1, <2>7 DEF vars, DirectAlloc, DirectFree, McuPost, driver
  <2>8. QED
    BY <2>2, <2>4, <2>5, <2>6, <2>7 DEF Next, MainLoop, Mcu, Send
<1>3. QED
  BY <1>1, <1>2, Inductive, PTL DEF SafeSpec

-----------------------------------------------------------------------------
(* Refinement: each step of the driver is a step of the mailbox or none.   *)

(* The stage of a message depends on the list, the callbacks and the tags. *)
LEMMA StageUnchanged ==
  ASSUME UNCHANGED <<tx_callback, ipc_msg_list, msg_out>>
  PROVE  \A n \in Messages : Stage(n)' = Stage(n)
BY DEF Stage, Waiting, Carried

(* Taking a channel whose callback is not registered for message m. *)
LEMMA InsertIsAccept ==
  ASSUME DriverType, NEW c \in Channels, NEW m \in Messages,
         tx_callback[c] = None,
         ipc_msg_list' = ipc_msg_list,
         tx_callback' = [tx_callback EXCEPT ![c] = m],
         msg_out' = [msg_out EXCEPT ![c] = m]
  PROVE  \A n \in Messages : Stage(n)' = IF n = m THEN "sent" ELSE Stage(n)
<1>1. \A d \in Channels : /\ tx_callback'[d] = IF d = c THEN m ELSE tx_callback[d]
                          /\ msg_out'[d] = IF d = c THEN m ELSE msg_out[d]
  BY DEF DriverType
<1>2. \A n \in Messages : n # None
  BY MessageAssumption
<1>3. \A n \in Messages : Waiting(n)' <=> Waiting(n)
  BY DEF Waiting
<1>4. tx_callback'[c] = m /\ msg_out'[c] # None
  BY <1>1, <1>2
<1>5. Stage(m)' = "sent"
  BY <1>4 DEF Stage
<1>6. ASSUME NEW n \in Messages, n # m PROVE Stage(n)' = Stage(n)
  <2>1. \A d \in Channels : tx_callback'[d] = n <=> tx_callback[d] = n
    BY <1>1, <1>2, <1>6
  <2>2. \A d \in Channels : tx_callback'[d] = n => msg_out'[d] = msg_out[d]
    BY <1>1, <1>6
  <2>3. QED
    BY <1>3, <2>1, <2>2 DEF Stage, Carried
<1>7. QED
  BY <1>5, <1>6

(* Accepting a message moves that message, and no other, to "sent". *)
LEMMA SendIsAccept ==
  ASSUME IInv, NEW m \in Messages, Idle(m), ipc_msg_send(m)
  PROVE  \A n \in Messages : Stage(n)' = IF n = m THEN "sent" ELSE Stage(n)
<1> DEFINE c == ipc_alloc_channel(Length[m], available_buffer)
<1>0. DriverType /\ Length[m] \in Nat
  BY MessageAssumption DEF IInv, TypeOK, DriverType
<1>1. c = NO_CHANNEL \/ (c \in available_buffer /\ c \in Channels)
  BY <1>0, AllocReturns DEF DriverType
<1>2. CASE c = NO_CHANNEL
  <2>1. ipc_msg_list' = Append(ipc_msg_list, m) /\ UNCHANGED <<tx_callback, msg_out>>
    BY <1>2 DEF ipc_msg_send
  <2>2. /\ Len(ipc_msg_list) \in Nat /\ Len(ipc_msg_list') = Len(ipc_msg_list) + 1
        /\ \A i \in 1 .. Len(ipc_msg_list) + 1 :
             ipc_msg_list'[i] = IF i = Len(ipc_msg_list) + 1 THEN m ELSE ipc_msg_list[i]
    BY <1>0, <2>1, ListFacts DEF DriverType
  <2> HIDE DEF c
  <2>3. \A n \in Messages : Waiting(n)' <=> Waiting(n) \/ n = m
    BY <2>2 DEF Waiting
  <2>4. QED
    BY <2>1, <2>3 DEF Stage, Carried
<1>3. CASE c # NO_CHANNEL
  <2>1. /\ ipc_msg_list' = ipc_msg_list
        /\ tx_callback' = [tx_callback EXCEPT ![c] = m]
        /\ msg_out' = [msg_out EXCEPT ![c] = m]
    BY <1>3 DEF ipc_msg_send, ipc_insert_msg
  <2>2. c \in Channels /\ tx_callback[c] = None
    BY <1>0, <1>1, <1>3 DEF IInv, ChannelOwnership, CallbackOwnership
  <2> HIDE DEF c
  <2>3. QED
    BY <1>0, <2>1, <2>2, InsertIsAccept
<1>4. QED
  BY <1>2, <1>3

(* A completion returns the message of its channel to the caller; the head *)
(* of the list, if it leaves, goes from the list to a register.            *)
LEMMA CompletionIsComplete ==
  ASSUME IInv, OnePlace, NEW c \in isr_out, ipc_free_and_next(c)
  PROVE  /\ tx_callback[c] \in Messages /\ Stage(tx_callback[c]) = "received"
         /\ \A n \in Messages :
              Stage(n)' = IF n = tx_callback[c] THEN "idle" ELSE Stage(n)
<1> DEFINE free == available_buffer \cup {c}
           d == NextChannel(free)
<1>0. DriverType /\ c \in Channels /\ free \subseteq Channels /\ c \notin InFlight
  BY DEF IInv, TypeOK, DriverType, ChannelOwnership, Finished
<1>1. PICK x \in Messages : tx_callback[c] = x /\ msg_out[c] = None
  BY <1>0 DEF IInv, CallbackOwnership, Finished, DriverType, InFlight
<1>2. ~Waiting(x) /\ \A e \in Channels : tx_callback[e] = x => e = c
  BY <1>0, <1>1, MessageAssumption DEF OnePlace, Carried
<1>3. Stage(x) = "received"
  BY <1>0, <1>1, <1>2 DEF Stage, Carried
<1>4. CASE HeadLeaves(free)
  <2>1. ipc_msg_list # <<>> /\ d # NO_CHANNEL
    BY <1>4 DEF HeadLeaves
  <2>2. PICK h \in Messages :
        /\ Len(ipc_msg_list) \in Nat /\ Len(ipc_msg_list) > 0
        /\ h = ipc_msg_list[1] /\ h = Head(ipc_msg_list)
        /\ Len(Tail(ipc_msg_list)) = Len(ipc_msg_list) - 1
        /\ \A i \in 1 .. Len(ipc_msg_list) - 1 : Tail(ipc_msg_list)[i] = ipc_msg_list[i + 1]
    BY <1>0, <2>1, ListFacts DEF DriverType
  <2>3. d \in free /\ d \in Channels
    <3>1. Length[h] \in Nat /\ d = ipc_alloc_channel(Length[h], free)
      BY <2>2, MessageAssumption DEF NextChannel
    <3>2. \/ ipc_alloc_channel(Length[h], free) = NO_CHANNEL
          \/ ipc_alloc_channel(Length[h], free) \in free \cap Channels
      BY <1>0, <3>1, AllocReturns
    <3> HIDE DEF d
    <3>3. QED
      BY <2>1, <3>1, <3>2
  <2>4. /\ ipc_msg_list' = Tail(ipc_msg_list)
        /\ tx_callback' = [tx_callback EXCEPT ![c] = None, ![d] = h]
        /\ msg_out' = [msg_out EXCEPT ![d] = h]
    BY <1>4, <2>2 DEF ipc_free_and_next, ipc_insert_msg
  <2>5. d = c \/ tx_callback[d] = None
    BY <2>3 DEF IInv, ChannelOwnership, CallbackOwnership
  <2> HIDE DEF d, free
  <2>6. \A e \in Channels :
          /\ tx_callback'[e] = IF e = d THEN h ELSE IF e = c THEN None ELSE tx_callback[e]
          /\ msg_out'[e] = IF e = d THEN h ELSE msg_out[e]
    BY <1>0, <2>3, <2>4 DEF DriverType
  <2>7. Waiting(h) /\ h # x
    BY <1>2, <2>2 DEF Waiting
  <2>8. \A n \in Messages : Waiting(n)' <=> Waiting(n) /\ n # h
    <3>1. ASSUME NEW n \in Messages, Waiting(n)' PROVE Waiting(n) /\ n # h
      <4>1. PICK i \in 1 .. Len(ipc_msg_list) - 1 : ipc_msg_list[i + 1] = n
        BY <2>2, <2>4, <3>1 DEF Waiting
      <4>2. i + 1 \in 1 .. Len(ipc_msg_list) /\ i + 1 # 1 /\ 1 \in 1 .. Len(ipc_msg_list)
        BY <2>2
      <4>3. QED
        BY <2>2, <4>1, <4>2 DEF Waiting, OnePlace
    <3>2. ASSUME NEW n \in Messages, Waiting(n), n # h PROVE Waiting(n)'
      <4>1. PICK i \in 1 .. Len(ipc_msg_list) : ipc_msg_list[i] = n
        BY <3>2 DEF Waiting
      <4>2. i # 1
        BY <2>2, <3>2, <4>1
      <4>3. i - 1 \in 1 .. Len(ipc_msg_list) - 1 /\ (i - 1) + 1 = i
        BY <2>2, <4>2
      <4>4. i - 1 \in 1 .. Len(ipc_msg_list') /\ ipc_msg_list'[i - 1] = n
        BY <2>2, <2>4, <4>1, <4>3
      <4>5. QED
        BY <4>4 DEF Waiting
    <3>3. QED
      BY <3>1, <3>2
  <2>9. Stage(h) = "sent" /\ Stage(h)' = "sent"
    BY <2>2, <2>3, <2>6, <2>7, MessageAssumption DEF Stage
  <2>10. Stage(x)' = "idle"
    BY <1>1, <1>2, <2>5, <2>6, <2>7, <2>8, MessageAssumption DEF Stage, Carried
  <2>11. ASSUME NEW n \in Messages, n # x, n # h PROVE Stage(n)' = Stage(n)
    <3>1. \A e \in Channels : tx_callback'[e] = n <=> tx_callback[e] = n
      BY <1>1, <2>5, <2>6, <2>11, MessageAssumption
    <3>2. \A e \in Channels : tx_callback'[e] = n => msg_out'[e] = msg_out[e]
      BY <2>6, <2>11
    <3>3. Waiting(n)' <=> Waiting(n)
      BY <2>8, <2>11
    <3>4. QED
      BY <3>1, <3>2, <3>3 DEF Stage, Carried
  <2>12. QED
    BY <1>1, <1>3, <2>9, <2>10, <2>11
<1>5. CASE ~HeadLeaves(free)
  <2>1. /\ UNCHANGED <<ipc_msg_list, msg_out>>
        /\ tx_callback' = [tx_callback EXCEPT ![c] = None]
    BY <1>5 DEF ipc_free_and_next
  <2>2. \A e \in Channels : tx_callback'[e] = IF e = c THEN None ELSE tx_callback[e]
    BY <1>0, <2>1 DEF DriverType
  <2>3. \A n \in Messages : Waiting(n)' <=> Waiting(n)
    BY <2>1 DEF Waiting
  <2>4. Stage(x)' = "idle"
    BY <1>1, <1>2, <2>2, <2>3, MessageAssumption DEF Stage, Carried
  <2>5. ASSUME NEW n \in Messages, n # x PROVE Stage(n)' = Stage(n)
    <3>1. \A e \in Channels : tx_callback'[e] = n <=> tx_callback[e] = n
      BY <1>1, <2>2, <2>5, MessageAssumption
    <3>2. QED
      BY <2>1, <2>3, <3>1 DEF Stage, Carried
  <2>6. QED
    BY <1>1, <1>3, <2>4, <2>5
<1>6. QED
  BY <1>4, <1>5

(* The MCU reads a message that was sent. *)
LEMMA ReadIsReceive ==
  ASSUME IInv, OnePlace, NEW c \in Channels, McuReceive(c)
  PROVE  /\ msg_out[c] \in Messages /\ Stage(msg_out[c]) = "sent"
         /\ \A n \in Messages :
              Stage(n)' = IF n = msg_out[c] THEN "received" ELSE Stage(n)
<1>1. PICK x \in Messages :
      /\ DriverType /\ c \in InFlight /\ msg_out[c] = x /\ x # None
      /\ tx_callback[c] = x
      /\ UNCHANGED <<tx_callback, ipc_msg_list>>
      /\ msg_out' = [msg_out EXCEPT ![c] = None]
  BY DEF IInv, TypeOK, DriverType, CallbackOwnership, InFlight, McuReceive
<1>2. \A e \in Channels : msg_out'[e] = IF e = c THEN None ELSE msg_out[e]
  BY <1>1 DEF DriverType
<1>3. ~Waiting(x) /\ \A e \in Channels : tx_callback[e] = x => e = c
  BY <1>1 DEF OnePlace, Carried
<1>4. \A n \in Messages : (Waiting(n)' <=> Waiting(n)) /\ (Carried(n)' <=> Carried(n))
  BY <1>1 DEF Waiting, Carried
<1>5. Stage(x) = "sent"
  BY <1>1 DEF Stage
<1>6. Stage(x)' = "received"
  BY <1>1, <1>2, <1>3, <1>4 DEF Stage, Carried
<1>7. ASSUME NEW n \in Messages, n # x PROVE Stage(n)' = Stage(n)
  BY <1>1, <1>2, <1>4, <1>7 DEF Stage
<1>8. QED
  BY <1>1, <1>5, <1>6, <1>7

(* The driver delivers exactly once: every behaviour of it is a behaviour  *)
(* of the mailbox, provided that payloads fit their buffers.               *)
THEOREM DriverImplementsMailbox == SafeSpec /\ PayloadsFit => DeliveredExactlyOnce
<1> DEFINE state == [m \in Messages |-> Stage(m)]
<1>1. Init => Mailbox!Init
  <2> SUFFICES ASSUME Init PROVE Mailbox!Init
    OBVIOUS
  <2>1. \A m \in Messages : ~Waiting(m) /\ ~Carried(m)
    BY MessageAssumption DEF Init, Waiting, Carried
  <2>2. \A m \in Messages : Stage(m) = "idle"
    BY <2>1 DEF Stage, Carried
  <2>3. QED
    BY <2>2 DEF Init, Mailbox!Init
<1>2. IInv /\ OnePlace /\ PayloadIntact /\ [Next]_vars => [Mailbox!Next]_Mailbox!vars
  <2> SUFFICES ASSUME IInv, OnePlace, PayloadIntact, [Next]_vars
               PROVE  Mailbox!Next \/ UNCHANGED Mailbox!vars
    OBVIOUS
  <2>0. DriverType
    BY DEF IInv, TypeOK, DriverType
  <2>1. ASSUME UNCHANGED <<tx_callback, ipc_msg_list, msg_out, event>>
        PROVE  UNCHANGED Mailbox!vars
    BY <2>1, StageUnchanged DEF Mailbox!vars
  <2>2. ASSUME NEW m \in Messages, Idle(m), UNCHANGED event,
               \A n \in Messages : Stage(n)' = IF n = m THEN "sent" ELSE Stage(n)
        PROVE  Mailbox!Accept(m)
    <3>1. state[m] = "idle"
      BY <2>2 DEF Idle, Stage, Carried
    <3>2. state' = [state EXCEPT ![m] = "sent"]
      BY <2>2
    <3>3. QED
      BY <2>2, <3>1, <3>2 DEF Mailbox!Accept
  <2>3. ASSUME NEW m \in Messages, Send(m) PROVE Mailbox!Next
    BY <2>2, <2>3, SendIsAccept DEF Send, Mailbox!Next
  <2>4. ASSUME NEW m \in Direct, DirectInsert(m) PROVE Mailbox!Next
    <3>1. /\ m \in Messages /\ channel \in Channels /\ Idle(m)
          /\ tx_callback[channel] = None
          /\ tx_callback' = [tx_callback EXCEPT ![channel] = m]
          /\ msg_out' = [msg_out EXCEPT ![channel] = m]
          /\ UNCHANGED <<ipc_msg_list, event>>
      BY <2>4, ChannelAssumption, MessageAssumption
      DEF DirectInsert, ipc_insert_msg, IInv, TypeOK, ChannelOwnership, CallbackOwnership,
          Channels, LoadChannels
    <3>2. QED
      BY <2>0, <2>2, <3>1, InsertIsAccept DEF Mailbox!Next
  <2>5. CASE DirectFree
    <3>1. tx_callback' = tx_callback /\ UNCHANGED <<ipc_msg_list, msg_out, event>>
      <4>1. channel \in Channels /\ tx_callback[channel] = None
        BY <2>5, ChannelAssumption
        DEF DirectFree, IInv, TypeOK, ChannelOwnership, CallbackOwnership,
            Channels, LoadChannels
      <4>2. QED
        BY <2>0, <2>5, <4>1 DEF DirectFree, DriverType
    <3>2. QED
      BY <2>1, <3>1
  <2>6. ASSUME NEW c \in Channels, IsrOut(c) PROVE Mailbox!Next
    <3>1. c \in isr_out /\ ipc_free_and_next(c) /\ event' = <<"completed", tx_callback[c]>>
      BY <2>6 DEF IsrOut
    <3>2. PICK m \in Messages :
            /\ m = tx_callback[c] /\ Stage(m) = "received"
            /\ \A n \in Messages : Stage(n)' = IF n = m THEN "idle" ELSE Stage(n)
      BY <3>1, CompletionIsComplete
    <3>3. state[m] = "received" /\ state' = [state EXCEPT ![m] = "idle"]
      BY <3>2
    <3>4. QED
      BY <3>1, <3>2, <3>3 DEF Mailbox!Next, Mailbox!Complete
  <2>7. ASSUME NEW c \in Channels, McuReceive(c) PROVE Mailbox!Next
    <3>1. event' = <<"received", msg_out[c]>>
      BY <2>7 DEF McuReceive, PayloadIntact, InFlight
    <3>2. PICK m \in Messages :
            /\ m = msg_out[c] /\ Stage(m) = "sent"
            /\ \A n \in Messages : Stage(n)' = IF n = m THEN "received" ELSE Stage(n)
      BY <2>7, ReadIsReceive
    <3>3. state[m] = "sent" /\ state' = [state EXCEPT ![m] = "received"]
      BY <3>2
    <3>4. QED
      BY <3>1, <3>2, <3>3 DEF Mailbox!Next, Mailbox!Receive
  <2>8. ASSUME NEW c \in RxChannels, IsrIn(c) PROVE Mailbox!Next \/ UNCHANGED Mailbox!vars
    BY <2>1, <2>2, <2>8, SendIsAccept DEF IsrIn, driver, Mailbox!Next
  <2>9. CASE DirectAlloc \/ IsrEnter \/ UNCHANGED vars \/ \E c \in RxChannels : McuPost(c)
    BY <2>1, <2>9 DEF DirectAlloc, IsrEnter, McuPost, driver, vars
  <2>10. QED
    BY <2>3, <2>4, <2>5, <2>6, <2>7, <2>8, <2>9 DEF Next, MainLoop, Interrupt, Mcu
<1>3. QED
  BY <1>1, <1>2, Inductive, MessagesAreNotDuplicated, PayloadsStayIntact, PTL
  DEF SafeSpec, DeliveredExactlyOnce, Mailbox!SafeSpec
=============================================================================
