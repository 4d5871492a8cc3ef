------------------------- MODULE FlowControlProofs -------------------------
(***************************************************************************)
(* Credit accounting of FlowControl for every set of streams and every     *)
(* size of the windows whose maxima cover the initial windows.             *)
(***************************************************************************)
EXTENDS FlowControl, FiniteSetTheorems, TLAPS

(***************************************************************************)
(* The inductive invariant.  Every WINDOW_UPDATE under way lies between    *)
(* the initial and the present receive window; nothing was received or is  *)
(* under way beyond what was sent; and a reset stream sends nothing more.  *)
(***************************************************************************)
IncrementsBounded ==
    \A c \in Controllers : receiveWindowIncrement[c] <= MaxIncrement[c]

WindowUpdatesGranted ==
    \A u \in windowUpdates :
        /\ InitialWindow[u.id] <= u.offset
        /\ u.offset <= receiveWindow[u.id]

WindowsOrdered ==
    \A c \in Controllers :
        /\ InitialWindow[c] <= receiveWindow[c]
        /\ sendWindow[c] <= receiveWindow[c]
        /\ bytesSent[c] <= getSendWindow(c)

ReceivedWasSent ==
    /\ \A s \in Streams : highestReceived[s] <= bytesSent[s]
    /\ \A f \in streamFrames : f.offset <= bytesSent[f.stream]
    /\ \A r \in rstFrames : /\ r.stream \in resetLocally
                            /\ r.offset = bytesSent[r.stream]

IndInv ==
    /\ TypeOK
    /\ IncrementsBounded
    /\ WindowUpdatesGranted
    /\ WindowsOrdered
    /\ ReceivedWasSent

(***************************************************************************)
(* AddBytes adds n to the stream, leaves the other streams alone and adds  *)
(* either n or nothing to the connection.                                  *)
(***************************************************************************)
LEMMA AddBytesFact ==
    ASSUME NEW f \in [Controllers -> Nat], NEW s \in Streams, NEW n \in Nat
    PROVE  /\ AddBytes(f, s, n) \in [Controllers -> Nat]
           /\ AddBytes(f, s, n)[s] = f[s] + n
           /\ \A t \in Streams : t # s => AddBytes(f, s, n)[t] = f[t]
           /\ AddBytes(f, s, n)[Conn] =
                 IF s \in Contributing THEN f[Conn] + n ELSE f[Conn]
BY FlowControlAssumption DEF AddBytes, Controllers

(***************************************************************************)
(* SendWindowSize is within what is left of the stream's window and, for a *)
(* stream that contributes, of the connection's.                           *)
(***************************************************************************)
LEMMA SendWindowSizeFact ==
    ASSUME TypeOK, WindowsOrdered, NEW s \in Streams
    PROVE  /\ SendWindowSize(s) \in Nat
           /\ bytesSent[s] + SendWindowSize(s) <= getSendWindow(s)
           /\ s \in Contributing =>
                 bytesSent[Conn] + SendWindowSize(s) <= getSendWindow(Conn)
<1>1. \A c \in Controllers : /\ getSendWindow(c) \in Nat
                             /\ bytesSent[c] \in Nat
                             /\ ControllerSendWindowSize(c) = getSendWindow(c) - bytesSent[c]
                             /\ bytesSent[c] <= getSendWindow(c)
  BY FlowControlAssumption
  DEF TypeOK, WindowsOrdered, getSendWindow, ControllerSendWindowSize
<1>2. s \in Controllers /\ Conn \in Controllers
  BY DEF Controllers
<1> QED
  BY <1>1, <1>2 DEF SendWindowSize

(***************************************************************************)
(* An increment that MaybeUpdateWindow adjusts does not shrink and stays   *)
(* within its maximum, and the window it leads to is not below the old one.*)
(***************************************************************************)
LEMMA AdjustFact ==
    ASSUME TypeOK, NEW c \in Controllers, NEW adjust,
           NEW i \in Nat, i <= MaxIncrement[c]
    PROVE  /\ MaybeAdjustedWith(c, i, adjust) \in Nat
           /\ i <= MaybeAdjustedWith(c, i, adjust)
           /\ MaybeAdjustedWith(c, i, adjust) <= MaxIncrement[c]
           /\ NecessaryWith(c, i) =>
                 receiveWindow[c] <= bytesRead[c] + MaybeAdjustedWith(c, i, adjust)
<1>1. /\ receiveWindow[c] \in Nat
      /\ bytesRead[c] \in Nat
      /\ MaxIncrement[c] \in Nat
  BY FlowControlAssumption DEF TypeOK
<1>2. i \div 2 \in Nat /\ i \div 2 <= i
  OBVIOUS
<1>3. NecessaryWith(c, i) => receiveWindow[c] <= bytesRead[c] + i
  BY <1>1, <1>2 DEF NecessaryWith
<1>4. /\ MaybeAdjustedWith(c, i, adjust) \in Nat
      /\ i <= MaybeAdjustedWith(c, i, adjust)
      /\ MaybeAdjustedWith(c, i, adjust) <= MaxIncrement[c]
  BY <1>1 DEF MaybeAdjustedWith
<1> QED
  BY <1>1, <1>3, <1>4

(***************************************************************************)
(* EnsureMinimumWindowIncrement does not lower the connection's increment  *)
(* and keeps it within its maximum.                                        *)
(***************************************************************************)
LEMMA EnsuredFact ==
    ASSUME TypeOK, IncrementsBounded, MaximaCoverInitialWindows,
           NEW force \in BOOLEAN, NEW adjust \in SUBSET Controllers,
           NEW e \in EnsuredIncrement(force, adjust)
    PROVE  /\ e \in Nat
           /\ receiveWindowIncrement[Conn] <= e
           /\ e <= MaxIncrement[Conn]
<1> DEFINE old == receiveWindowIncrement[Conn]
           reported == {s \in Contributing :
                           force \/ NecessaryWith(s, receiveWindowIncrement[s])}
           larger == {v \in {(3 * ReturnedIncrement(s, adjust)) \div 2 : s \in reported} :
                           v > old}
<1>1. /\ Conn \in Controllers
      /\ old \in Nat
      /\ MaxIncrement[Conn] \in Nat
      /\ old <= MaxIncrement[Conn]
  BY FlowControlAssumption DEF TypeOK, IncrementsBounded, Controllers
<1>2. \A s \in Contributing : ReturnedIncrement(s, adjust) \in Nat
  <2> SUFFICES ASSUME NEW s \in Contributing PROVE ReturnedIncrement(s, adjust) \in Nat
    OBVIOUS
  <2>1. /\ s \in Controllers
        /\ receiveWindowIncrement[s] \in Nat
        /\ receiveWindowIncrement[s] <= MaxIncrement[s]
    BY FlowControlAssumption DEF TypeOK, IncrementsBounded, Controllers
  <2>2. MaybeAdjustedWith(s, receiveWindowIncrement[s], adjust) \in Nat
    BY <2>1, AdjustFact
  <2> QED
    BY <2>2 DEF ReturnedIncrement
<1>3. \A v \in larger : v \in Nat /\ v > old
  BY <1>2
<1>4. CASE larger = {}
  BY <1>1, <1>4 DEF EnsuredIncrement
<1>5. CASE larger # {}
  <2>1. PICK v \in larger : e = IF v < MaxIncrement[Conn] THEN v ELSE MaxIncrement[Conn]
    BY <1>5 DEF EnsuredIncrement
  <2> QED
    BY <2>1, <1>1, <1>3
<1> QED
  BY <1>4, <1>5

(***************************************************************************)
(* The initial windows satisfy the invariant.                              *)
(***************************************************************************)
LEMMA InitIndInv ==
    ASSUME MaximaCoverInitialWindows PROVE Init => IndInv
BY FlowControlAssumption
DEF MaximaCoverInitialWindows, Init, IndInv, TypeOK, IncrementsBounded,
    WindowUpdatesGranted, WindowsOrdered, ReceivedWasSent, getSendWindow, Controllers

(***************************************************************************)
(* GetWindowUpdates leaves every window and increment at least as large.   *)
(***************************************************************************)
LEMMA WindowsGrow ==
    ASSUME MaximaCoverInitialWindows, TypeOK, IncrementsBounded,
           NEW force \in BOOLEAN, NEW adjust \in SUBSET Controllers,
           GetWindowUpdates(force, adjust)
    PROVE  /\ receiveWindow' \in [Controllers -> Nat]
           /\ receiveWindowIncrement' \in [Controllers -> Nat]
           /\ \A c \in Controllers :
                 /\ receiveWindow[c] <= receiveWindow'[c]
                 /\ receiveWindowIncrement[c] <= receiveWindowIncrement'[c]
                 /\ receiveWindowIncrement'[c] <= MaxIncrement[c]
           /\ windowUpdates' \subseteq windowUpdates \cup
                 {[id |-> c, offset |-> receiveWindow'[c]] : c \in Controllers}
<1>1. PICK e \in EnsuredIncrement(force, adjust) :
        LET old == [receiveWindowIncrement EXCEPT ![Conn] = e]
            necessary == {c \in Controllers : NecessaryWith(c, old[c])}
        IN  /\ receiveWindowIncrement' =
                    [c \in Controllers |-> MaybeAdjustedWith(c, old[c], adjust)]
            /\ receiveWindow' =
                    [c \in Controllers |->
                        IF c \in necessary
                        THEN bytesRead[c] + receiveWindowIncrement'[c]
                        ELSE receiveWindow[c]]
            /\ windowUpdates' = windowUpdates \cup
                    {[id |-> c, offset |-> receiveWindow'[c]] :
                        c \in IF force THEN Controllers ELSE necessary}
  BY DEF GetWindowUpdates
<1> DEFINE old == [receiveWindowIncrement EXCEPT ![Conn] = e]
<1>2. /\ e \in Nat
      /\ receiveWindowIncrement[Conn] <= e
      /\ e <= MaxIncrement[Conn]
  BY EnsuredFact
<1>3. \A c \in Controllers : /\ old[c] \in Nat
                             /\ receiveWindowIncrement[c] <= old[c]
                             /\ old[c] <= MaxIncrement[c]
  BY <1>2 DEF TypeOK, IncrementsBounded, Controllers
<1>4. \A c \in Controllers :
        /\ MaybeAdjustedWith(c, old[c], adjust) \in Nat
        /\ old[c] <= MaybeAdjustedWith(c, old[c], adjust)
        /\ MaybeAdjustedWith(c, old[c], adjust) <= MaxIncrement[c]
        /\ NecessaryWith(c, old[c]) =>
              receiveWindow[c] <= bytesRead[c] + MaybeAdjustedWith(c, old[c], adjust)
  BY <1>3, AdjustFact
<1>5. \A c \in Controllers : receiveWindow[c] \in Nat /\ bytesRead[c] \in Nat
                             /\ receiveWindowIncrement[c] \in Nat /\ MaxIncrement[c] \in Nat
  BY FlowControlAssumption DEF TypeOK
<1> HIDE DEF old
<1>6. /\ receiveWindowIncrement' =
             [c \in Controllers |-> MaybeAdjustedWith(c, old[c], adjust)]
      /\ receiveWindow' =
             [c \in Controllers |->
                 IF NecessaryWith(c, old[c])
                 THEN bytesRead[c] + MaybeAdjustedWith(c, old[c], adjust)
                 ELSE receiveWindow[c]]
  BY <1>1 DEF old
<1>7. windowUpdates' \subseteq windowUpdates \cup
                 {[id |-> c, offset |-> receiveWindow'[c]] : c \in Controllers}
  BY <1>1
<1> QED
  BY <1>3, <1>4, <1>5, <1>6, <1>7

(***************************************************************************)
(* Every step preserves the invariant.                                     *)
(***************************************************************************)
LEMMA NextIndInv ==
    ASSUME MaximaCoverInitialWindows, IndInv, [Next]_vars
    PROVE  IndInv'
<1> USE DEF IndInv
<1>0. /\ Conn \in Controllers /\ Conn \notin Streams
      /\ Streams \subseteq Controllers /\ Contributing \subseteq Streams
      /\ InitialWindow \in [Controllers -> Nat \ {0}]
  BY FlowControlAssumption DEF Controllers
<1>1. ASSUME NEW s \in Streams, NEW n \in 1..MaxOffset, SendStreamFrame(s, n)
      PROVE  IndInv'
  <2>1. n \in Nat
    BY FlowControlAssumption
  <2>2. /\ bytesSent' \in [Controllers -> Nat]
        /\ bytesSent'[s] = bytesSent[s] + n
        /\ \A t \in Streams : t # s => bytesSent'[t] = bytesSent[t]
        /\ bytesSent'[Conn] = IF s \in Contributing THEN bytesSent[Conn] + n ELSE bytesSent[Conn]
    <3>1. bytesSent \in [Controllers -> Nat] /\ bytesSent' = AddBytes(bytesSent, s, n)
      BY <1>1 DEF SendStreamFrame, TypeOK
    <3> QED
      BY <2>1, <3>1, AddBytesFact
  <2>3. /\ bytesSent'[s] <= getSendWindow(s)
        /\ s \in Contributing => bytesSent[Conn] + n <= getSendWindow(Conn)
    <3>1. n <= SendWindowSize(s)
      BY <1>1 DEF SendStreamFrame
    <3>2. /\ getSendWindow(s) \in Nat /\ getSendWindow(Conn) \in Nat
          /\ bytesSent[s] \in Nat /\ bytesSent[Conn] \in Nat
      BY <1>0 DEF TypeOK, getSendWindow
    <3> QED
      BY <2>1, <2>2, <3>1, <3>2, SendWindowSizeFact
  <2>4. TypeOK'
    BY <1>0, <1>1, <2>1, <2>2
    DEF SendStreamFrame, TypeOK, readVars, windowVars, Frame
  <2>5. IncrementsBounded' /\ WindowUpdatesGranted'
    BY <1>1 DEF SendStreamFrame, IncrementsBounded, WindowUpdatesGranted, windowVars
  <2>6. WindowsOrdered'
    <3>1. UNCHANGED <<sendWindow, receiveWindow>>
      BY <1>1 DEF SendStreamFrame, windowVars
    <3>2. \A c \in Controllers : bytesSent'[c] <= getSendWindow(c)
      BY <2>2, <2>3, <1>0 DEF WindowsOrdered, Controllers
    <3> QED
      BY <3>1, <3>2 DEF WindowsOrdered, getSendWindow
  <2>7. ReceivedWasSent'
    <3>1. \A t \in Streams : bytesSent[t] <= bytesSent'[t] /\ bytesSent[t] \in Nat
                             /\ bytesSent'[t] \in Nat /\ highestReceived[t] \in Nat
      BY <1>0, <2>1, <2>2 DEF TypeOK
    <3>2. s \notin resetLocally /\ UNCHANGED <<resetLocally, rstFrames, highestReceived>>
          /\ streamFrames' = streamFrames \cup {[stream |-> s, offset |-> bytesSent[s] + n]}
      BY <1>1 DEF SendStreamFrame, readVars
    <3>3. \A t \in Streams : highestReceived'[t] <= bytesSent'[t]
      BY <3>1, <3>2 DEF ReceivedWasSent
    <3>4. \A f \in streamFrames' : f.offset <= bytesSent'[f.stream]
      BY <2>2, <3>1, <3>2 DEF ReceivedWasSent, TypeOK, Frame
    <3>5. \A r \in rstFrames' : r.stream \in resetLocally' /\ r.offset = bytesSent'[r.stream]
      BY <2>2, <3>2 DEF ReceivedWasSent, TypeOK, Frame
    <3> QED
      BY <3>3, <3>4, <3>5 DEF ReceivedWasSent
  <2> QED
    BY <2>4, <2>5, <2>6, <2>7
<1>2. ASSUME NEW s \in Streams, ResetLocally(s)
      PROVE  IndInv'
  <2>1. TypeOK'
    BY <1>0, <1>2 DEF ResetLocally, TypeOK, readVars, windowVars, Frame
  <2>2. IncrementsBounded' /\ WindowUpdatesGranted' /\ WindowsOrdered'
    BY <1>2 DEF ResetLocally, IncrementsBounded, WindowUpdatesGranted,
                WindowsOrdered, getSendWindow, windowVars
  <2>3. ReceivedWasSent'
    BY <1>2 DEF ResetLocally, ReceivedWasSent, readVars
  <2> QED
    BY <2>1, <2>2, <2>3
<1>3. ASSUME NEW s \in Streams, NEW offset \in Nat, offset <= bytesSent[s],
             RaiseHighestReceived(s, offset)
      PROVE  /\ highestReceived' \in [Controllers -> Nat]
             /\ err' \in {"receivedTooMuchData", err}
             /\ \A t \in Streams : highestReceived'[t] <= bytesSent[t]
  <2> DEFINE increment == HighestReceivedIncrement(s, offset)
             streamOnly == [highestReceived EXCEPT ![s] = @ + increment]
             both == AddBytes(highestReceived, s, increment)
  <2>1. /\ increment \in Nat
        /\ highestReceived \in [Controllers -> Nat]
        /\ bytesSent \in [Controllers -> Nat]
        /\ highestReceived[s] + increment <= bytesSent[s]
        /\ \A t \in Streams : highestReceived[t] <= bytesSent[t]
    BY <1>0, <1>3 DEF TypeOK, ReceivedWasSent, HighestReceivedIncrement
  <2> HIDE DEF increment
  <2>2. /\ streamOnly \in [Controllers -> Nat]
        /\ \A t \in Streams : streamOnly[t] <= bytesSent[t]
    BY <1>0, <2>1
  <2>3. /\ both \in [Controllers -> Nat]
        /\ \A t \in Streams : both[t] <= bytesSent[t]
    <3>1. /\ both \in [Controllers -> Nat]
          /\ both[s] = highestReceived[s] + increment
          /\ \A t \in Streams : t # s => both[t] = highestReceived[t]
      BY <2>1, AddBytesFact, SMTT(30)
    <3> QED
      BY <2>1, <3>1
  <2>4. /\ highestReceived' = streamOnly \/ highestReceived' = both
        /\ err' \in {"receivedTooMuchData", err}
    BY <1>3 DEF RaiseHighestReceived, increment
  <2> QED
    BY Zenon, <2>2, <2>3, <2>4
<1>4. ASSUME NEW f \in streamFrames, ReceiveStreamFrame(f)
      PROVE  IndInv'
  <2>1. f.stream \in Streams /\ f.offset \in Nat /\ f.offset <= bytesSent[f.stream]
    BY DEF TypeOK, Frame, ReceivedWasSent
  <2>2. /\ RaiseHighestReceived(f.stream, f.offset)
        /\ UNCHANGED <<sendVars, bytesRead, resetRemotely, windowVars, netVars>>
    BY <1>4 DEF ReceiveStreamFrame
  <2> QED
    BY <1>3, <2>1, <2>2
    DEF TypeOK, IncrementsBounded, WindowUpdatesGranted, WindowsOrdered,
        ReceivedWasSent, getSendWindow, sendVars, windowVars, netVars
<1>5. ASSUME NEW f \in rstFrames, ReceiveRstStream(f)
      PROVE  IndInv'
  <2>1. f.stream \in Streams /\ f.offset \in Nat /\ f.offset <= bytesSent[f.stream]
    BY <1>0 DEF TypeOK, Frame, ReceivedWasSent
  <2>2. /\ highestReceived' \in [Controllers -> Nat]
        /\ err' \in {"receivedTooMuchData", "dataAfterTermination", err}
        /\ \A t \in Streams : highestReceived'[t] <= bytesSent[t]
    BY <1>3, <1>5, <2>1 DEF ReceiveRstStream, TypeOK, ReceivedWasSent
  <2>3. /\ resetRemotely' = resetRemotely \cup {f.stream}
        /\ UNCHANGED <<sendVars, bytesRead, windowVars, netVars>>
    BY <1>5 DEF ReceiveRstStream
  <2> QED
    BY <2>1, <2>2, <2>3
    DEF TypeOK, IncrementsBounded, WindowUpdatesGranted, WindowsOrdered,
        ReceivedWasSent, getSendWindow, sendVars, windowVars, netVars
<1>6. ASSUME NEW s \in Streams, NEW n \in 1..MaxOffset, Read(s, n)
      PROVE  IndInv'
  <2>1. n \in Nat
    BY FlowControlAssumption
  <2>2. bytesRead' \in [Controllers -> Nat]
    BY Zenon, <1>6, <2>1, AddBytesFact DEF Read, TypeOK
  <2> QED
    BY <1>6, <2>2
    DEF Read, TypeOK, IncrementsBounded, WindowUpdatesGranted, WindowsOrdered,
        ReceivedWasSent, getSendWindow, sendVars, windowVars, netVars
<1>7. ASSUME NEW force \in BOOLEAN, NEW adjust \in SUBSET Controllers,
             GetWindowUpdates(force, adjust)
      PROVE  IndInv'
  <2>1. /\ receiveWindow' \in [Controllers -> Nat]
        /\ receiveWindowIncrement' \in [Controllers -> Nat]
        /\ \A c \in Controllers :
              /\ receiveWindow[c] <= receiveWindow'[c]
              /\ receiveWindowIncrement'[c] <= MaxIncrement[c]
        /\ windowUpdates' \subseteq windowUpdates \cup
              {[id |-> c, offset |-> receiveWindow'[c]] : c \in Controllers}
    BY <1>7, WindowsGrow, SMTT(30)
  <2>2. UNCHANGED <<sendVars, readVars, streamFrames, rstFrames, err>>
    BY <1>7 DEF GetWindowUpdates
  <2>3. TypeOK'
    BY <2>1, <2>2 DEF TypeOK, sendVars, readVars, WindowUpdate
  <2>4. \A c \in Controllers : /\ receiveWindow[c] \in Nat /\ receiveWindow'[c] \in Nat
                               /\ InitialWindow[c] \in Nat /\ sendWindow[c] \in Nat
                               /\ InitialWindow[c] <= receiveWindow'[c]
                               /\ sendWindow[c] <= receiveWindow'[c]
    BY <1>0, <2>1, SMTT(30) DEF TypeOK, WindowsOrdered
  <2>5. IncrementsBounded' /\ WindowsOrdered'
    BY <2>1, <2>2, <2>4 DEF IncrementsBounded, WindowsOrdered, getSendWindow, sendVars
  <2>6. WindowUpdatesGranted'
    BY <1>0, <2>1, <2>4 DEF WindowUpdatesGranted, TypeOK, WindowUpdate
  <2>7. ReceivedWasSent'
    BY <2>2 DEF ReceivedWasSent, sendVars, readVars
  <2> QED
    BY <2>3, <2>5, <2>6, <2>7
<1>8. ASSUME NEW u \in windowUpdates, UpdateWindow(u)
      PROVE  IndInv'
  <2>1. /\ u.id \in Controllers /\ u.offset \in Nat
        /\ InitialWindow[u.id] <= u.offset /\ u.offset <= receiveWindow[u.id]
        /\ u.offset > sendWindow[u.id]
        /\ sendWindow' = [sendWindow EXCEPT ![u.id] = u.offset]
        /\ UNCHANGED <<bytesSent, resetLocally, readVars, windowVars, netVars, err>>
    BY <1>8 DEF UpdateWindow, TypeOK, WindowUpdate, WindowUpdatesGranted
  <2>2. TypeOK'
    BY <2>1 DEF TypeOK, readVars, windowVars, netVars
  <2>3. WindowsOrdered'
    BY <1>0, <2>1 DEF TypeOK, WindowsOrdered, getSendWindow, windowVars
  <2> QED
    BY <2>1, <2>2, <2>3
    DEF IncrementsBounded, WindowUpdatesGranted, ReceivedWasSent, readVars,
        windowVars, netVars
<1>9. CASE UNCHANGED vars
  BY <1>9 DEF vars, sendVars, readVars, windowVars, netVars, TypeOK, IncrementsBounded,
              WindowUpdatesGranted, WindowsOrdered, ReceivedWasSent, getSendWindow
<1> QED
  BY <1>1, <1>2, <1>4, <1>5, <1>6, <1>7, <1>8, <1>9
  DEF Next, Sending, Resetting, ReceivingStreamFrame, ReceivingRstStream, Reading,
      UpdatingReceiveWindows, UpdatingSendWindow

(***************************************************************************)
(* The invariant gives the two checked ones: the sender's credit was       *)
(* granted, and what arrived on a stream is within its window.             *)
(***************************************************************************)
LEMMA IndInvImplies ==
    ASSUME IndInv PROVE CreditWasGranted /\ StreamsWithinWindow
<1>1. /\ \A c \in Controllers : /\ bytesSent[c] \in Nat /\ receiveWindow[c] \in Nat
                                /\ highestReceived[c] \in Nat /\ sendWindow[c] \in Nat
                                /\ InitialWindow[c] \in Nat
      /\ Streams \subseteq Controllers
  BY FlowControlAssumption DEF IndInv, TypeOK, Controllers
<1>2. CreditWasGranted
  BY <1>1 DEF IndInv, WindowsOrdered, CreditWasGranted, getSendWindow
<1>3. \A s \in Streams : highestReceived[s] <= receiveWindow[s]
  BY <1>1, <1>2 DEF IndInv, ReceivedWasSent, CreditWasGranted, getSendWindow
<1>4. \A r \in rstFrames, f \in streamFrames :
            f.stream = r.stream => f.offset <= r.offset
  BY DEF IndInv, ReceivedWasSent
<1> QED
  BY <1>2, <1>3, <1>4 DEF StreamsWithinWindow

(***************************************************************************)
(* flowController.AddBytesSent, UpdateSendWindow and MaybeUpdateWindow     *)
(* keep the sender within the credit the receiver granted, for every       *)
(* controller and under loss, repetition and reordering.                   *)
(***************************************************************************)
THEOREM CreditTheorem ==
    ASSUME MaximaCoverInitialWindows PROVE Spec => []CreditWasGranted
<1>1. Init => IndInv
  BY InitIndInv
<1>2. IndInv /\ [Next]_vars => IndInv'
  BY NextIndInv
<1>3. IndInv => CreditWasGranted
  BY IndInvImplies
<1> QED
  BY <1>1, <1>2, <1>3, PTL DEF Spec

(***************************************************************************)
(* UpdateHighestReceived and ResetStream never see a stream beyond its     *)
(* window, nor data beyond the offset of its RST_STREAM.                   *)
(***************************************************************************)
THEOREM StreamsTheorem ==
    ASSUME MaximaCoverInitialWindows PROVE Spec => []StreamsWithinWindow
<1>1. Init => IndInv
  BY InitIndInv
<1>2. IndInv /\ [Next]_vars => IndInv'
  BY NextIndInv
<1>3. IndInv => StreamsWithinWindow
  BY IndInvImplies
<1> QED
  BY <1>1, <1>2, <1>3, PTL DEF Spec

(***************************************************************************)
(* No step of MaybeUpdateWindow or EnsureMinimumWindowIncrement takes      *)
(* back credit that may already be in use.                                 *)
(***************************************************************************)
THEOREM NeverShrinksTheorem ==
    ASSUME MaximaCoverInitialWindows PROVE Spec => ReceiveWindowNeverShrinks
<1> DEFINE Grows == \A c \in Controllers :
                        /\ receiveWindow'[c] >= receiveWindow[c]
                        /\ receiveWindowIncrement'[c] >= receiveWindowIncrement[c]
<1>1. Init => IndInv
  BY InitIndInv
<1>2. IndInv /\ [Next]_vars => IndInv'
  BY NextIndInv
<1>3. IndInv /\ [Next]_vars => [Grows]_vars
  <2> SUFFICES ASSUME IndInv, Next PROVE Grows
    OBVIOUS
  <2>1. \A c \in Controllers : receiveWindow[c] \in Nat /\ receiveWindowIncrement[c] \in Nat
    BY DEF IndInv, TypeOK
  <2>2. CASE UNCHANGED windowVars
    BY <2>1, <2>2, SMTT(30) DEF windowVars
  <2>3. CASE UpdatingReceiveWindows
    BY <2>1, <2>3, WindowsGrow DEF UpdatingReceiveWindows, IndInv, TypeOK
  <2> QED
    BY <2>2, <2>3
    DEF Next, Sending, Resetting, ReceivingStreamFrame, ReceivingRstStream, Reading,
        UpdatingSendWindow, SendStreamFrame, ResetLocally, ReceiveStreamFrame,
        ReceiveRstStream, Read, UpdateWindow
<1> QED
  BY <1>1, <1>2, <1>3, PTL DEF Spec, ReceiveWindowNeverShrinks


-----------------------------------------------------------------------------
(* The connection's window *)

(***************************************************************************)
(* The bytes that f counts on the streams that contribute, as pairs of a   *)
(* stream and a position.  The connection's counter is their number, at    *)
(* both ends.                                                              *)
(***************************************************************************)
Bytes(f) == {b \in Contributing \X Nat : 1 <= b[2] /\ b[2] <= f[b[1]]}

CountsBytes(f) == IsFiniteSet(Bytes(f)) /\ f[Conn] = Cardinality(Bytes(f))

ConnectionCounts == CountsBytes(bytesSent) /\ CountsBytes(highestReceived)

LEMMA AddBytesCounts ==
    ASSUME NEW f \in [Controllers -> Nat], CountsBytes(f), NEW s \in Streams, NEW n \in Nat
    PROVE  CountsBytes(AddBytes(f, s, n))
<1> DEFINE g == AddBytes(f, s, n)
<1>1. /\ g \in [Controllers -> Nat] /\ g[s] = f[s] + n
      /\ \A t \in Streams : t # s => g[t] = f[t]
      /\ g[Conn] = IF s \in Contributing THEN f[Conn] + n ELSE f[Conn]
  BY AddBytesFact
<1>2. Contributing \subseteq Streams /\ \A t \in Streams : f[t] \in Nat
  BY FlowControlAssumption DEF Controllers
<1> HIDE DEF g
<1>3. CASE s \notin Contributing
  <2>1. Bytes(g) = Bytes(f)
    BY <1>1, <1>2, <1>3 DEF Bytes
  <2> QED
    BY <1>1, <1>3, <2>1 DEF CountsBytes, g
<1>4. CASE s \in Contributing
  <2> DEFINE positions == f[s] + 1 .. f[s] + n
             new == {s} \X positions
  <2>1. IsFiniteSet(positions) /\ Cardinality(positions) = n
    <3> DEFINE a == f[s] + 1
               b == f[s] + n
    <3>1. a \in Int /\ b \in Int /\ (IF a > b THEN 0 ELSE b - a + 1) = n
      BY <1>2
    <3> HIDE DEF a, b
    <3>2. IsFiniteSet(a .. b) /\ Cardinality(a .. b) = n
      BY <3>1, FS_Interval, Zenon
    <3> QED
      BY <3>2 DEF a, b
  <2>2. IsFiniteSet({s}) /\ Cardinality({s}) = 1
    BY FS_Singleton
  <2>3. IsFiniteSet(new) /\ Cardinality(new) = n
    <3> HIDE DEF positions
    <3>1. IsFiniteSet(new) /\ Cardinality(new) = 1 * n
      BY <2>1, <2>2, FS_Product, Zenon
    <3> QED
      BY <3>1
  <2>4. Bytes(g) = Bytes(f) \cup new
    BY <1>1, <1>2, <1>4 DEF Bytes
  <2>5. Bytes(f) \cap new = {}
    BY <1>2, <1>4 DEF Bytes
  <2> HIDE DEF new
  <2>6. IsFiniteSet(Bytes(g)) /\ Cardinality(Bytes(g)) = Cardinality(Bytes(f)) + n - Cardinality({})
    BY <2>3, <2>4, <2>5, FS_Union DEF CountsBytes
  <2>7. Cardinality({}) = 0
    BY FS_EmptySet
  <2>8. f[Conn] \in Nat
    BY DEF Controllers
  <2> QED
    BY <1>1, <1>4, <2>6, <2>7, <2>8 DEF CountsBytes, g
<1> QED
  BY <1>3, <1>4


(***************************************************************************)
(* What is received stays within what was sent on each stream, and so, as  *)
(* both ends count the same bytes, on the connection.                      *)
(***************************************************************************)
LEMMA RaiseIsAllowed ==
    ASSUME IndInv, ConnectionCounts, NEW s \in Streams, NEW offset \in Nat, offset <= bytesSent[s],
           RaiseHighestReceived(s, offset)
    PROVE  err' = err /\ CountsBytes(highestReceived')
<1> DEFINE increment == HighestReceivedIncrement(s, offset)
           both == AddBytes(highestReceived, s, increment)
<1>1. /\ highestReceived \in [Controllers -> Nat] /\ bytesSent \in [Controllers -> Nat]
      /\ s \in Controllers /\ Conn \in Controllers /\ Contributing \subseteq Streams
      /\ Streams \subseteq Controllers /\ \A c \in Controllers : receiveWindow[c] \in Nat
  BY FlowControlAssumption DEF IndInv, TypeOK, Controllers
<1>2. increment \in Nat /\ highestReceived[s] + increment <= bytesSent[s]
  BY <1>1 DEF IndInv, ReceivedWasSent, HighestReceivedIncrement
<1> HIDE DEF increment
<1>3. \A c \in Controllers : bytesSent[c] <= receiveWindow[c]
  BY <1>1, IndInvImplies, FlowControlAssumption DEF CreditWasGranted, getSendWindow, IndInv, TypeOK
<1>4. CountsBytes(both)
  BY <1>1, <1>2, AddBytesCounts, Zenon DEF ConnectionCounts
<1>5. /\ both \in [Controllers -> Nat] /\ both[s] = highestReceived[s] + increment
      /\ \A t \in Streams : t # s => both[t] = highestReceived[t]
  BY <1>1, <1>2, AddBytesFact
<1> HIDE DEF both
<1>6. both[Conn] <= bytesSent[Conn]
  <2>1. \A t \in Contributing : both[t] <= bytesSent[t] /\ both[t] \in Nat /\ bytesSent[t] \in Nat
    BY <1>1, <1>2, <1>5 DEF IndInv, ReceivedWasSent
  <2>2. Bytes(both) \in SUBSET Bytes(bytesSent)
    BY <2>1 DEF Bytes
  <2> QED
    BY <1>4, <2>2, FS_Subset DEF ConnectionCounts, CountsBytes
<1>7. ~([highestReceived EXCEPT ![s] = @ + increment][s] > receiveWindow[s])
  BY <1>1, <1>2, <1>3
<1>8. ~(both[Conn] > receiveWindow[Conn])
  BY <1>1, <1>3, <1>5, <1>6
<1>9. highestReceived' = both /\ err' = err
  BY <1>7, <1>8, Zenon DEF RaiseHighestReceived, increment, both
<1> QED
  BY <1>4, <1>9

(***************************************************************************)
(* No step of two correct ends raises an error.                            *)
(***************************************************************************)
LEMMA NextNoFalseViolation ==
    ASSUME IndInv, ConnectionCounts, NoFalseViolation, [Next]_vars
    PROVE  ConnectionCounts' /\ NoFalseViolation'
<1>1. CASE UNCHANGED <<bytesSent, highestReceived, err>>
  BY <1>1 DEF ConnectionCounts, CountsBytes, Bytes, NoFalseViolation
<1>2. CASE Sending
  <2>1. PICK s \in Streams, n \in 1 .. MaxOffset : SendStreamFrame(s, n)
    BY <1>2 DEF Sending
  <2>2. CountsBytes(AddBytes(bytesSent, s, n))
    BY AddBytesCounts, FlowControlAssumption DEF IndInv, TypeOK, ConnectionCounts
  <2>3. bytesSent' = AddBytes(bytesSent, s, n) /\ UNCHANGED <<highestReceived, err>>
    BY <2>1 DEF SendStreamFrame, readVars
  <2> QED
    BY <2>2, <2>3, Zenon DEF ConnectionCounts, CountsBytes, Bytes, NoFalseViolation
<1>3. ASSUME NEW f \in streamFrames \cup rstFrames, RaiseHighestReceived(f.stream, f.offset),
             UNCHANGED bytesSent
      PROVE  ConnectionCounts' /\ NoFalseViolation'
  <2>1. f.stream \in Streams /\ f.offset \in Nat /\ f.offset <= bytesSent[f.stream]
    BY FlowControlAssumption DEF IndInv, TypeOK, Frame, ReceivedWasSent, Controllers
  <2>2. err' = err /\ CountsBytes(highestReceived')
    BY <1>3, <2>1, RaiseIsAllowed, Zenon
  <2> QED
    BY <1>3, <2>2, Zenon DEF ConnectionCounts, CountsBytes, Bytes, NoFalseViolation
<1>4. CASE ReceivingStreamFrame
  BY <1>3, <1>4 DEF ReceivingStreamFrame, ReceiveStreamFrame, sendVars
<1>5. CASE ReceivingRstStream
  <2>1. PICK f \in rstFrames : ReceiveRstStream(f)
    BY <1>5 DEF ReceivingRstStream
  <2>2. f.stream \in Streams /\ ~(f.offset < highestReceived[f.stream])
    BY FlowControlAssumption DEF IndInv, TypeOK, Frame, ReceivedWasSent, Controllers
  <2>3. RaiseHighestReceived(f.stream, f.offset) /\ UNCHANGED bytesSent
    BY <2>1, <2>2 DEF ReceiveRstStream, sendVars
  <2> QED
    BY <1>3, <2>3
<1>6. CASE Resetting \/ Reading \/ UpdatingReceiveWindows \/ UpdatingSendWindow \/ UNCHANGED vars
  BY <1>1, <1>6, Zenon
  DEF Resetting, Reading, UpdatingReceiveWindows, UpdatingSendWindow, ResetLocally, Read,
      GetWindowUpdates, UpdateWindow, sendVars, readVars, vars
<1> QED
  BY <1>2, <1>4, <1>5, <1>6, Zenon DEF Next

(***************************************************************************)
(* Between two correct ends UpdateHighestReceived and ResetStream never    *)
(* fail, neither on a stream nor on the connection, for any number of      *)
(* streams, whether they contribute to the connection or not.              *)
(***************************************************************************)
THEOREM NoFalseViolationTheorem ==
    ASSUME MaximaCoverInitialWindows PROVE Spec => []NoFalseViolation
<1>1. Init => IndInv
  BY InitIndInv
<1>2. Init => ConnectionCounts /\ NoFalseViolation
  <2> SUFFICES ASSUME Init PROVE ConnectionCounts /\ NoFalseViolation
    OBVIOUS
  <2>1. /\ Contributing \subseteq Controllers /\ Conn \in Controllers
        /\ \A c \in Controllers : bytesSent[c] = 0 /\ highestReceived[c] = 0
    BY FlowControlAssumption DEF Init, Controllers
  <2>2. Bytes(bytesSent) = {} /\ Bytes(highestReceived) = {}
    BY <2>1 DEF Bytes
  <2> QED
    BY <2>1, <2>2, FS_EmptySet DEF Init, ConnectionCounts, CountsBytes, NoFalseViolation
<1>3. IndInv /\ [Next]_vars => IndInv'
  BY NextIndInv
<1>4. IndInv /\ ConnectionCounts /\ NoFalseViolation /\ [Next]_vars
          => ConnectionCounts' /\ NoFalseViolation'
  BY NextNoFalseViolation
<1> QED
  BY <1>1, <1>2, <1>3, <1>4, PTL DEF Spec
=============================================================================
