------------------------- MODULE SquashBlock_proofs -------------------------
(***************************************************************************)
(* Reading a block, for every image, block and codec: what is held is      *)
(* exactly what the place needs, a block delivered is the whole one or a   *)
(* named case, and a sound block of any codec but lzma fails only with the *)
(* host.                                                                   *)
(***************************************************************************)
EXTENDS SquashBlock, TLAPS

(***************************************************************************)
(* The inductive invariant is HoldsExactly and Progressing.                *)
(* What is held is a function of pc and dec, so that HoldsExactly needs    *)
(* only the places to be known.  What is delivered depends on how far the  *)
(* decoder has got (Streaming): the space left is inside the buffer, and   *)
(* lzma asks for the end of a sound block only once the buffer is full.    *)
(***************************************************************************)
Places == {"closed", "creating", "starting", "ready", "bounds", "stored", "result", "copy",
           "decode", "inflate", "lzma", "xz", "delivered"}
Streams == [in : Nat, out : Nat, action : {"RUN", "FINISH"}, stalled : BOOLEAN]

Shape ==
    /\ pc \in Places
    /\ dec \in Types \cup {"none"}
    /\ at \in Stored
    /\ strm \in Streams
    /\ length \in Nat
    /\ faulted \in BOOLEAN

Fitting ==
    /\ pc \in {"result", "stored", "copy", "decode", "inflate", "lzma", "xz"} => at.size <= Capacity
    /\ pc = "copy" => ~at.compressed
    /\ pc = "decode" \/ Decoding => at.compressed /\ length = Capacity

Streaming ==
    /\ Decoding => strm.out <= Capacity
    /\ pc \notin {"closed", "creating"} => dec \in Codecs
    /\ pc = "lzma" => ~(at.size < 5 \/ ~at.props) /\ dec = "lzma"
    /\ pc = "lzma" /\ Decodable /\ strm.action = "FINISH" => strm.in = 0 /\ strm.out = 0

Returned ==
    /\ pc \in {"closed", "creating", "starting"} => ret = "none"
    /\ pc = "delivered" => ret = "OK"

USE StoredAssumption, SizesAssumption

LEMMA Sizes ==
    ASSUME at \in Stored
    PROVE  Capacity \in Nat \ {0} /\ at.yields \in Nat /\ at.size \in Nat /\ Yields \in Nat
BY DEF Capacity, Yields

-----------------------------------------------------------------------------
(***************************************************************************)
(* What is held.                                                           *)
(***************************************************************************)
\* The two loops over lzma_code go on with what they have, deliver, or fail.
LEMMA LzmaOutcomes ==
    ASSUME LzmaStep \/ XzStep
    PROVE  /\ pc \in {"lzma", "xz"} /\ dec' = dec /\ at' = at
           /\ \/ pc' = pc /\ live' = live
              \/ pc' = "delivered" /\ live' = Freed({"compressed", "decoder"})
              \/ pc' = "ready" /\ live' = Freed({"compressed", "uncompressed", "decoder"})
<1>1. {"compressed", "uncompressed"} \cup {"decoder"} = {"compressed", "uncompressed", "decoder"}
  OBVIOUS
<1> QED BY <1>1 DEF LzmaStep, XzStep, Go, Deliver, FailedByStream, FailedByHost,
                    DecoderFails, Undecoded

LEMMA Balance ==
    ASSUME Shape, HoldsExactly, [Next]_vars
    PROVE  HoldsExactly'
<1> USE DEF Shape, Places, HoldsExactly, Holds, Decoding, Resources, Taken, Freed,
            WithState, Codecs, Go, Fail, HostFails, BlockFails, Deliver
<1>1. ASSUME NEW codec \in Types, Create(codec) PROVE HoldsExactly'
  BY <1>1 DEF Create, NoDecompressor
<1>2. CASE NewState \/ InitLibrary
  BY <1>2, BuiltAssumption DEF NewState, InitLibrary, NoDecompressor, Context
<1>3. CASE Destroy
  BY <1>3 DEF Destroy, Context
<1>4. ASSUME NEW b \in Stored, Call(b) PROVE HoldsExactly'
  BY <1>4 DEF Call
<1>5. CASE Bounds
  BY <1>5 DEF Bounds
<1>6. CASE ReadStored
  BY <1>6 DEF ReadStored
<1>7. CASE AllocResult
  BY <1>7 DEF AllocResult
<1>8. CASE CopyStored
  BY <1>8 DEF CopyStored
<1> USE DEF Undecoded, DecoderFails, FailedByStream, FailedByHost
<1>9. CASE DecodeAtOnce
  BY <1>9 DEF DecodeAtOnce
<1>10. CASE StartDecoder
  BY <1>10 DEF StartDecoder
<1>11. CASE Inflate
  BY <1>11 DEF Inflate
<1>12. CASE LzmaStep \/ XzStep
  <2>1. pc \in {"lzma", "xz"} /\ dec' = dec
    BY <1>12, LzmaOutcomes
  <2>2. CASE pc' = pc /\ live' = live
    BY <2>1, <2>2
  <2>3. CASE pc' = "delivered" /\ live' = Freed({"compressed", "decoder"})
    BY <2>1, <2>3
  <2>4. CASE pc' = "ready" /\ live' = Freed({"compressed", "uncompressed", "decoder"})
    BY <2>1, <2>4
  <2> QED BY <1>12, <2>2, <2>3, <2>4, LzmaOutcomes
<1>13. CASE Use
  BY <1>13 DEF Use
<1>14. CASE UNCHANGED vars
  BY <1>14 DEF vars
<1> QED BY <1>1, <1>2, <1>3, <1>4, <1>5, <1>6, <1>7, <1>8, <1>9, <1>10, <1>11, <1>12,
           <1>13, <1>14 DEF Next, Reading

-----------------------------------------------------------------------------
(***************************************************************************)
(* What is delivered.  A stream whose end is met is the whole one or passed*)
(* over; a block that must be read is decodable.                           *)
(***************************************************************************)
LEMMA Ended ==
    ASSUME at.compressed, dec \in Codecs, Stream = "whole" \/ Unnoticed
    PROVE  PassedOver \/ (at.stream = "whole" /\ Yields = at.yields)
<1>1. CASE NoInput
  BY <1>1 DEF Stream, Unnoticed, NoInput
<1>2. CASE ~NoInput /\ LengthIsDecoded
  BY <1>2 DEF PassedOver
<1>3. CASE ~NoInput /\ ~LengthIsDecoded
  <2>1. Stream = at.stream /\ Yields = at.yields
    BY <1>3 DEF Stream, Yields
  <2> QED BY <2>1 DEF Unnoticed, PassedOver, Codecs
<1> QED BY <1>1, <1>2, <1>3

MustBeRead == SoundBlock /\ ~(at.compressed /\ LengthIsDecoded)
LEMMA MustBeReadDecodes ==
    ASSUME at \in Stored, MustBeRead, at.compressed
    PROVE  Decodable /\ ~LzmaRejects
<1>1. at.stream = "whole" /\ at.yields <= Capacity /\ ~LengthIsDecoded
      /\ (dec = "lzma" => at.props /\ at.size > (IF at.alone THEN 13 ELSE 5))
  BY DEF MustBeRead, SoundBlock
<1>2. ~NoInput /\ (dec = "lzma" => ~(at.size < 5))
  BY <1>1, Sizes DEF NoInput, LengthIsDecoded
<1> QED BY <1>1, <1>2 DEF Decodable, Fits, Stream, Yields, LzmaRejects

(***************************************************************************)
(* A call of lzma_code leaves the space behind what it *)
(* has produced; at the end of a stream that is all of it, and on a sound  *)
(* block the only other result is OK with the buffer full.                 *)
(***************************************************************************)
LEMMA MovedInside ==
    ASSUME at \in Stored, strm \in Streams, strm.out <= Capacity,
           NEW action \in {"RUN", "FINISH"}
    PROVE  /\ Moved(action) \in Streams
           /\ Moved(action).out <= Capacity
           /\ Moved(action).action = action
           /\ Moved(action).in = Unread
           /\ Left <= strm.out =>
                /\ Yields <= Capacity
                /\ Capacity - Moved(action).out = Yields
BY Sizes DEF Moved, Streams, Produced, Left, Unread, Progress

LEMMA SoundResults ==
    ASSUME at \in Stored, strm \in Streams, strm.out <= Capacity, Decodable
    PROVE  /\ Left <= strm.out
           /\ ~LzmaCode("DATA_ERROR") /\ ~LzmaCode("BUF_ERROR")
           /\ LzmaCode("OK") =>
                Left = strm.out /\ (strm.out > 0 \/ strm.in > 0) /\ Yields = Capacity
BY Sizes DEF LzmaCode, Decodable, Fits, Streams, Produced, Left, Unread, Progress

Progressing ==
    Shape /\ Fitting /\ Streaming /\ Returned /\ OkMeansWholeBlock /\ SoundBlockIsRead

(***************************************************************************)
(* A read ends in one of two ways, and whether a block must be read does   *)
(* not change while it lasts.                                              *)
(***************************************************************************)
LEMMA SameBlock ==
    ASSUME UNCHANGED <<dec, at>>
    PROVE  /\ MustBeRead' = MustBeRead /\ PassedOver' = PassedOver
           /\ Capacity' = Capacity /\ Decodable' = Decodable /\ LzmaRejects' = LzmaRejects
BY DEF MustBeRead, SoundBlock, InBounds, PassedOver, LengthIsDecoded, Capacity, Decodable,
       Fits, Stream, Yields, NoInput, LzmaRejects

LEMMA FailureProgresses ==
    ASSUME Progressing, pc \notin {"closed", "creating", "starting"},
           pc' = "ready", strm' = Idle, UNCHANGED <<dec, at, length>>,
           faulted' \in BOOLEAN, faulted' \/ ~MustBeRead
    PROVE  Progressing'
<1>1. Idle \in Streams
  BY DEF Idle, Streams
<1>2. SoundBlockIsRead'
  BY SameBlock DEF SoundBlockIsRead, MustBeRead
<1>3. Shape' /\ Fitting' /\ Streaming' /\ Returned' /\ OkMeansWholeBlock'
  BY <1>1 DEF Progressing, Shape, Places, Fitting, Streaming, Returned, OkMeansWholeBlock,
              Decoding
<1> QED BY <1>2, <1>3 DEF Progressing

LEMMA DeliveryProgresses ==
    ASSUME Progressing, NEW n \in Nat, NEW S, Deliver(n, S), n <= Capacity,
           pc \notin {"closed", "creating"},
           IF at.compressed THEN PassedOver \/ (at.stream = "whole" /\ n = at.yields)
           ELSE n = at.size
    PROVE  Progressing'
<1>1. Idle \in Streams
  BY DEF Idle, Streams
<1>2. /\ pc' = "delivered" /\ ret' = "OK" /\ length' = n /\ strm' = Idle
      /\ dec' = dec /\ at' = at /\ faulted' = faulted
  BY DEF Deliver
<1>3. OkMeansWholeBlock'
  BY <1>2, SameBlock DEF OkMeansWholeBlock
<1>4. Shape' /\ Fitting' /\ Streaming' /\ Returned' /\ SoundBlockIsRead'
  BY <1>1, <1>2 DEF Progressing, Shape, Places, Fitting, Streaming, Returned,
                    SoundBlockIsRead, Decoding
<1> QED BY <1>3, <1>4 DEF Progressing

LEMMA GoingOn ==
    ASSUME Progressing, pc' \notin {"ready", "delivered"}, UNCHANGED <<dec, at, faulted, ret>>,
           pc' \in Places, strm' \in Streams, length' \in Nat, Fitting', Streaming',
           pc' \in {"closed", "creating", "starting"} => ret = "none"
    PROVE  Progressing'
BY DEF Progressing, Shape, Returned, OkMeansWholeBlock, SoundBlockIsRead

\* What the decoders know of the block they work on.
LEMMA AtWork ==
    ASSUME Progressing, pc = "decode" \/ Decoding
    PROVE  /\ at \in Stored /\ at.compressed /\ length = Capacity /\ strm \in Streams
           /\ dec \in Codecs /\ at.size <= Capacity /\ faulted \in BOOLEAN
           /\ pc \notin {"closed", "creating", "starting"}
BY DEF Progressing, Shape, Fitting, Streaming, Decoding

LEMMA StreamFails ==
    ASSUME Progressing, pc = "decode" \/ Decoding, NEW S, FailedByStream(S), ~MustBeRead
    PROVE  Progressing'
BY AtWork, FailureProgresses DEF FailedByStream, DecoderFails

LEMMA HostFailsDecoder ==
    ASSUME Progressing, pc = "decode" \/ Decoding, NEW e, NEW S, FailedByHost(e, S)
    PROVE  Progressing'
BY AtWork, FailureProgresses DEF FailedByHost, DecoderFails

LEMMA DecoderDelivers ==
    ASSUME Progressing, pc = "decode" \/ Decoding, NEW S, Deliver(Yields, S),
           Stream = "whole" \/ Unnoticed, Fits
    PROVE  Progressing'
<1>1. at \in Stored /\ at.compressed /\ dec \in Codecs /\ Yields \in Nat /\ Yields <= Capacity
  BY AtWork, Sizes DEF Fits
<1>2. PassedOver \/ (at.stream = "whole" /\ Yields = at.yields)
  BY <1>1, Ended
<1> QED BY <1>1, <1>2, AtWork, DeliveryProgresses

LEMMA ReadingProgresses ==
    ASSUME Progressing, [Next]_vars
    PROVE  Progressing'
<1>1. ASSUME NEW codec \in Types, Create(codec) PROVE Progressing'
  BY <1>1 DEF Create, NoDecompressor, Progressing, Shape, Places, Fitting, Streaming, Returned,
              OkMeansWholeBlock, SoundBlockIsRead, Decoding
<1>2. CASE NewState \/ InitLibrary
  BY <1>2, BuiltAssumption
     DEF NewState, InitLibrary, NoDecompressor, Progressing, Shape, Places, Fitting,
         Streaming, Returned, OkMeansWholeBlock, SoundBlockIsRead, Decoding
<1>3. CASE Destroy
  BY <1>3 DEF Destroy, Progressing, Shape, Places, Fitting, Streaming, Returned,
              OkMeansWholeBlock, SoundBlockIsRead, Decoding
<1>4. ASSUME NEW b \in Stored, Call(b) PROVE Progressing'
  BY <1>4 DEF Call, Progressing, Shape, Places, Fitting, Streaming, Returned,
              OkMeansWholeBlock, SoundBlockIsRead, Decoding
<1>5. CASE Bounds
  <2>1. pc = "bounds" /\ at \in Stored /\ faulted \in BOOLEAN /\ strm \in Streams /\ length \in Nat
    BY <1>5 DEF Bounds, Progressing, Shape
  <2>2. ASSUME InBounds(at), Go("stored"), UNCHANGED <<strm, length>> PROVE Progressing'
    <3>1. at.size <= Capacity
      BY <2>1, <2>2, Sizes DEF InBounds, Capacity
    <3>2. Fitting' /\ Streaming'
      BY <2>1, <2>2, <3>1, SameBlock DEF Go, Progressing, Fitting, Streaming, Decoding
    <3> QED BY <2>1, <2>2, <3>2, GoingOn DEF Go, Places
  <2>3. ASSUME NEW e \in {"MEMORY", "IO"}, HostFails(e, {}) PROVE Progressing'
    BY <2>1, <2>3, FailureProgresses DEF HostFails, Fail
  <2>4. ASSUME ~InBounds(at), BlockFails("INVALID_FILE", {}) PROVE Progressing'
    BY <2>1, <2>4, FailureProgresses DEF BlockFails, Fail, MustBeRead, SoundBlock
  <2> QED BY <1>5, <2>2, <2>3, <2>4 DEF Bounds
<1>6. CASE ReadStored \/ AllocResult
  <2>1. /\ pc \in {"stored", "result"} /\ at \in Stored /\ at.size <= Capacity
        /\ strm \in Streams /\ length \in Nat /\ Capacity \in Nat
    BY <1>6, Sizes DEF ReadStored, AllocResult, Progressing, Shape, Fitting
  <2>2. ASSUME NEW e \in {"MEMORY", "IO"}, NEW S, HostFails(e, S) PROVE Progressing'
    BY <2>1, <2>2, FailureProgresses DEF HostFails, Fail
  <2>3. ASSUME Go("result"), UNCHANGED <<strm, length>> PROVE Progressing'
    <3>1. Fitting' /\ Streaming'
      BY <2>1, <2>3, SameBlock DEF Go, Progressing, Fitting, Streaming, Decoding
    <3> QED BY <2>1, <2>3, <3>1, GoingOn DEF Go, Places
  <2>4. ASSUME AllocResult, Go(IF at.compressed THEN "decode" ELSE "copy"), length' = Capacity,
               UNCHANGED strm
        PROVE  Progressing'
    <3>1. dec \in Codecs
      BY <2>4 DEF AllocResult, Progressing, Streaming
    <3>2. Fitting' /\ Streaming'
      BY <2>1, <2>4, <3>1, SameBlock DEF Go, Fitting, Streaming, Decoding
    <3> QED BY <2>1, <2>4, <3>2, GoingOn DEF Go, Places
  <2> QED BY <1>6, <2>2, <2>3, <2>4 DEF ReadStored, AllocResult
<1>7. CASE CopyStored
  <2>1. pc = "copy" /\ ~at.compressed /\ at \in Stored /\ at.size <= Capacity /\ Deliver(at.size, {"compressed"})
    BY <1>7 DEF CopyStored, Progressing, Shape, Fitting
  <2> QED BY <2>1, Sizes, DeliveryProgresses
<1>8. CASE DecodeAtOnce
  <2>1. pc = "decode" /\ (MustBeRead => Decodable)
    BY <1>8, AtWork, MustBeReadDecodes DEF DecodeAtOnce
  <2> QED BY <1>8, <2>1, DecoderDelivers, StreamFails, HostFailsDecoder DEF DecodeAtOnce
<1>9. CASE StartDecoder
  <2>1. /\ pc = "decode" /\ (MustBeRead => ~LzmaRejects) /\ dec \in {"gzip", "lzma", "xz"}
        /\ at \in Stored /\ at.size <= Capacity /\ at.compressed /\ length = Capacity
        /\ Capacity \in Nat /\ at.size \in Nat
    BY <1>9, AtWork, MustBeReadDecodes, Sizes DEF StartDecoder
  <2>2. PICK begun : begun = [in |-> Input, out |-> Capacity, action |-> "RUN", stalled |-> FALSE]
    OBVIOUS
  <2>3. ASSUME ~LzmaRejects, Go(IF dec = "gzip" THEN "inflate" ELSE dec), strm' = begun,
               UNCHANGED length
        PROVE  Progressing'
    <3>1. Input \in Nat
      BY <2>1, <2>3 DEF Input, LzmaRejects
    <3>2. begun \in Streams /\ begun.out <= Capacity /\ begun.action # "FINISH"
      BY <2>1, <2>2, <3>1 DEF Streams
    <3>3. Fitting'
      BY <2>1, <2>3, SameBlock DEF Go, Fitting, Decoding
    <3>4. Streaming'
      BY <2>1, <2>3, <3>2, SameBlock DEF Go, Streaming, Decoding, LzmaRejects, Codecs
    <3> QED BY <2>1, <2>3, <3>2, <3>3, <3>4, GoingOn DEF Go, Places
  <2> QED BY <1>9, <2>1, <2>2, <2>3, StreamFails, HostFailsDecoder DEF StartDecoder
<1>10. CASE Inflate
  <2>1. Decoding /\ (MustBeRead => Decodable)
    BY <1>10, AtWork, MustBeReadDecodes DEF Inflate, Decoding
  <2> QED BY <1>10, <2>1, DecoderDelivers, StreamFails, HostFailsDecoder DEF Inflate, Decodable
<1>11. ASSUME NEW action \in {"RUN", "FINISH"}, Decoding, LzmaCode("STREAM_END"),
              Deliver(Capacity - Moved(action).out, {"compressed", "decoder"})
       PROVE  Progressing'
  <2>1. Stream = "whole" \/ Unnoticed
    BY <1>11 DEF LzmaCode
  <2>2. strm.out <= Capacity
    BY <1>11 DEF Progressing, Streaming
  <2>3. Fits /\ Capacity - Moved(action).out = Yields
    BY <1>11, <2>2, AtWork, MovedInside DEF LzmaCode, Fits
  <2> QED BY <1>11, <2>1, <2>3, DecoderDelivers
<1>12. ASSUME NEW action \in {"RUN", "FINISH"}, Decoding, pc # "inflate", strm' = Moved(action),
              Go(pc), UNCHANGED length,
              pc = "lzma" /\ Decodable => Moved(action).in = 0 /\ Moved(action).out = 0
       PROVE  Progressing'
  <2>1. strm.out <= Capacity
    BY <1>12 DEF Progressing, Streaming
  <2>2. Moved(action) \in Streams /\ Moved(action).out <= Capacity
    BY <1>12, <2>1, AtWork, MovedInside
  <2>3. Fitting'
    BY <1>12, AtWork, SameBlock DEF Go, Progressing, Fitting, Decoding
  <2>4. Streaming'
    BY <1>12, <2>2, AtWork, SameBlock DEF Go, Progressing, Streaming, Decoding
  <2> QED BY <1>12, <2>2, <2>3, <2>4, AtWork, GoingOn DEF Go, Places, Decoding, Progressing, Shape
<1>13. CASE LzmaStep
  <2>1. Decoding /\ pc = "lzma" /\ strm.out <= Capacity /\ (MustBeRead => Decodable)
    BY <1>13, AtWork, MustBeReadDecodes DEF LzmaStep, Progressing, Streaming, Decoding
  <2>2. at \in Stored /\ strm \in Streams
    BY <2>1, AtWork
  <2>3. ASSUME strm.action = "RUN", LzmaCode("OK"), strm' = Moved("FINISH"), Go(pc),
               UNCHANGED length
        PROVE  Progressing'
    <3>1. Decodable => Moved("FINISH").in = 0 /\ Moved("FINISH").out = 0
      BY <2>1, <2>2, <2>3, MovedInside, SoundResults, Sizes DEF Unread, Streams
    <3> QED BY <2>1, <2>3, <3>1, <1>12
  <2>4. ~(Decodable /\ strm.action = "FINISH" /\ LzmaCode("OK"))
    BY <2>1, <2>2, SoundResults DEF Progressing, Streaming
  <2>5. Decodable => ~LzmaCode("DATA_ERROR") /\ ~LzmaCode("BUF_ERROR")
    BY <2>1, <2>2, SoundResults
  <2> QED BY <1>11, <1>13, <2>1, <2>3, <2>4, <2>5, StreamFails, HostFailsDecoder DEF LzmaStep
<1>14. CASE XzStep
  <2>1. /\ Decoding /\ pc = "xz" /\ strm.out <= Capacity /\ (MustBeRead => Decodable)
        /\ at \in Stored /\ strm \in Streams /\ length = Capacity
    BY <1>14, AtWork, MustBeReadDecodes DEF XzStep, Progressing, Streaming, Decoding
  <2>2. PICK action \in {"RUN", "FINISH"} :
             action = IF strm.in = 0 THEN "FINISH" ELSE strm.action
    BY <2>1 DEF Streams
  <2>3. ASSUME Decodable
        PROVE  /\ ~LzmaCode("DATA_ERROR") /\ ~LzmaCode("BUF_ERROR")
               /\ LzmaCode("OK") => ~XzStuck(action)
    <3>1. LzmaCode("OK") => Moved(action).out = 0
      BY <2>1, <2>3, MovedInside, SoundResults, Sizes DEF Streams
    <3> QED BY <2>1, <2>3, <3>1, SoundResults, Sizes DEF XzStuck
  <2> QED BY <1>11, <1>12, <1>14, <2>1, <2>2, <2>3, StreamFails, HostFailsDecoder
          DEF XzStep, XzGoesOn, XzDone
<1>15. CASE Use
  BY <1>15 DEF Use, Progressing, Shape, Places, Fitting, Streaming, Returned,
               OkMeansWholeBlock, SoundBlockIsRead, Decoding
<1>16. CASE UNCHANGED vars
  <2>1. Fitting' = Fitting /\ Streaming' = Streaming
    BY <1>16, SameBlock DEF vars, Fitting, Streaming, Decoding
  <2>2. OkMeansWholeBlock' = OkMeansWholeBlock /\ SoundBlockIsRead' = SoundBlockIsRead
    BY <1>16, SameBlock DEF vars, OkMeansWholeBlock, SoundBlockIsRead, SoundBlock, InBounds,
                            LengthIsDecoded
  <2> QED BY <1>16, <2>1, <2>2 DEF vars, Progressing, Shape, Returned
<1> QED BY <1>1, <1>2, <1>3, <1>4, <1>5, <1>6, <1>7, <1>8, <1>9, <1>10, <1>13,
           <1>14, <1>15, <1>16 DEF Next, Reading

-----------------------------------------------------------------------------
IInv == HoldsExactly /\ Progressing

LEMMA IInvHolds == Spec => []IInv
<1>1. Init => IInv
  <2>1. Init => HoldsExactly
    BY DEF Init, HoldsExactly, Holds, Decoding
  <2>2. Idle \in Streams
    BY DEF Idle, Streams
  <2>3. Init => Shape
    <3>1. Init => faulted \in BOOLEAN
      BY Zenon DEF Init
    <3>2. Init => pc \in Places /\ length \in Nat /\ dec \in Types \cup {"none"}
      BY DEF Init, Places
    <3> QED BY <2>2, <3>1, <3>2 DEF Init, Shape
  <2>4. Init => Fitting /\ Streaming /\ Returned /\ OkMeansWholeBlock /\ SoundBlockIsRead
    BY DEF Init, Fitting, Streaming, Returned, Decoding, OkMeansWholeBlock, SoundBlockIsRead
  <2> QED BY <2>1, <2>3, <2>4 DEF IInv, Progressing
<1>2. IInv /\ [Next]_vars => IInv'
  BY Balance, ReadingProgresses DEF IInv, Progressing
<1> QED BY <1>1, <1>2, PTL DEF Spec

(***************************************************************************)
(* No allocation is released twice: the counts never go below zero.        *)
(***************************************************************************)
THEOREM TypeCorrect == Spec => []TypeOK
<1>1. IInv => TypeOK
  BY DEF IInv, Progressing, Shape, Streams, HoldsExactly, TypeOK
<1> QED BY <1>1, IInvHolds, PTL

(***************************************************************************)
(* Every failing branch of the two readers and of the six decoders, and    *)
(* squash_decompressor_destroy, releases exactly what is held.             *)
(***************************************************************************)
THEOREM BlockBalance == Spec => []HoldsExactly
<1>1. IInv => HoldsExactly
  BY DEF IInv
<1> QED BY <1>1, IInvHolds, PTL

(***************************************************************************)
(* What is returned OK is the whole block, or one of the cases PassedOver  *)
(* names; no loop, error code or early return adds another.                *)
(***************************************************************************)
THEOREM WholeBlocksOnly == Spec => []OkMeansWholeBlock
<1>1. IInv => OkMeansWholeBlock
  BY DEF IInv, Progressing
<1> QED BY <1>1, IInvHolds, PTL

(***************************************************************************)
(* Sound blocks of any length fail only when the host does: the progress   *)
(* test of the xz loop and the second call of lzma never reject one.  The  *)
(* blocks of lzma with a length, as images have them, are the exception.   *)
(***************************************************************************)
THEOREM SoundBlocksAreRead == Spec => []SoundBlockIsRead
<1>1. IInv => SoundBlockIsRead
  BY DEF IInv, Progressing
<1> QED BY <1>1, IInvHolds, PTL
=============================================================================
