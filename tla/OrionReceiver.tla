----------------------------- MODULE OrionReceiver -----------------------------
(***************************************************************************)
(* The receive path of a connection, byte by byte: a controller sends      *)
(* frames and noise, TCP delivers them in pieces of any size, and the      *)
(* server parses what its buffer holds (src/src/trillium/server.rs:80-103, *)
(* src/src/orion/wire.rs).  The limit of the buffer, the command channel   *)
(* and the end of the connection are in module TrilliumServer.             *)
(***************************************************************************)
EXTENDS OrionWire

CONSTANTS
    Ids, Payloads,   \* what the frames sent carry
    CleanNoise,      \* noise without a Sync2, so without a sync pair
    FalseSyncs,      \* noise that looks like a header
    MaxPieces        \* bound: frames and runs of noise sent

ASSUME SenderAssumption ==
    /\ Ids \subseteq Bytes /\ MaxPieces \in Nat
    /\ \A p \in Payloads : p \in Seq(Bytes) /\ Len(p) < ByteSpace
    /\ \A n \in CleanNoise : n \in Seq(Bytes \ {Sync2})
    /\ FalseSyncs \subseteq Seq(Bytes)

VARIABLES
    flight,      \* sent and not yet read
    rxBuf,       \* rx_buf, less the frames that the parse loop has consumed
    parsing,     \* in the parse loop
    frames,      \* frames handed on so far
    sentFrames,  \* frames sent so far
    received,    \* all bytes read so far
    clean,       \* no false sync has been sent
    pieces       \* frames and runs of noise sent so far

vars == <<flight, rxBuf, parsing, frames, sentFrames, received, clean, pieces>>

Init ==
    /\ flight = <<>> /\ rxBuf = <<>> /\ parsing = FALSE
    /\ frames = <<>> /\ sentFrames = <<>> /\ received = <<>> /\ clean = TRUE
    /\ pieces = 0

Send(bytes) ==
    /\ pieces < MaxPieces /\ pieces' = pieces + 1
    /\ flight' = flight \o bytes
    /\ UNCHANGED <<rxBuf, parsing, frames, received>>

SendFrame ==
    \E id \in Ids, payload \in Payloads :
       /\ Send(Frame(id, payload))
       /\ sentFrames' = Append(sentFrames, <<id, payload>>)
       /\ UNCHANGED clean

SendNoise ==
    /\ \/ \E noise \in CleanNoise : Send(noise) /\ UNCHANGED clean
       \/ \E noise \in FalseSyncs : Send(noise) /\ clean' = FALSE
    /\ UNCHANGED sentFrames

Read ==
    /\ ~parsing
    /\ \E n \in 1..Len(flight) :
          /\ rxBuf' = rxBuf \o SubSeq(flight, 1, n)
          /\ received' = received \o SubSeq(flight, 1, n)
          /\ flight' = SubSeq(flight, n + 1, Len(flight))
    /\ parsing' = TRUE
    /\ UNCHANGED <<frames, sentFrames, clean, pieces>>

TakeFrame ==
    /\ parsing
    /\ LET frame == Parse(rxBuf)
       IN  /\ frame.found
           /\ frames' = Append(frames, <<frame.id, frame.data>>)
           /\ rxBuf' = SubSeq(rxBuf, frame.consumed + 1, Len(rxBuf))
    /\ UNCHANGED <<flight, parsing, sentFrames, received, clean, pieces>>

NoMoreFrames ==
    /\ parsing /\ ~Parse(rxBuf).found
    /\ parsing' = FALSE
    /\ UNCHANGED <<flight, rxBuf, frames, sentFrames, received, clean, pieces>>

Next == SendFrame \/ SendNoise \/ Read \/ TakeFrame \/ NoMoreFrames

Spec == Init /\ [][Next]_vars

-------------------------------------------------------------------------------
(***************************************************************************)
(* How TCP cuts the stream makes no difference: the frames handed on are   *)
(* those of the bytes read so far parsed in one go, although a cut may     *)
(* fall anywhere, a payload may hold a whole frame and a header may be     *)
(* noise (server.rs:84-101).                                               *)
(***************************************************************************)
ChunkingIrrelevant == ~parsing => frames = AllFrames(received)

(***************************************************************************)
(* Frames between noise without sync bytes all get through, and nothing    *)
(* else does, whatever their payloads look like (wire.rs:42-63).           *)
(***************************************************************************)
FramesDelivered == (clean /\ ~parsing /\ flight = <<>>) => frames = sentFrames

Swapped(bytes, i) == [bytes EXCEPT ![i] = bytes[i + 1], ![i + 1] = bytes[i]]

(***************************************************************************)
(* Two neighbouring bytes of a frame that change places on the way are     *)
(* noticed, unless they are equal modulo the modulus (wire.rs:16-21).      *)
(***************************************************************************)
SwapsNoticed ==
    \A k \in 1..Len(sentFrames) :
       LET bytes == Frame(sentFrames[k][1], sentFrames[k][2])
       IN  \A i \in 5..Len(bytes) - 3 :
              bytes[i] % Modulus # bytes[i + 1] % Modulus
                 => ~ValidAt(Swapped(bytes, i), 1)
===============================================================================
