---------------------------- MODULE SquashBlock ----------------------------
(***************************************************************************)
(* Reading one block: squash_read_metadata_block and squash_read_data_block*)
(* of src/src/squash_utils.c over the decompressor of                      *)
(* src/src/squash_decompressor.c, which is created when an image is opened,*)
(* used by any number of reads and destroyed.  One action per call that    *)
(* can fail, each failure with the releases of its branch.                 *)
(*                                                                         *)
(* A stored block is a record: kind, the function that reads it; room, the *)
(* bytes from its offset to the end of the image; size, the length stored; *)
(* compressed; and for the decoder: stream ("whole", "truncated" or        *)
(* "corrupt") and yields, the bytes that can be decoded from what is there.*)
(* Of a block of lzma also props, whether its five bytes of properties are *)
(* valid, and alone, whether the length (8 bytes) stands between them and  *)
(* the stream, as in the .lzma format and in SquashFS, or the stream begins*)
(* there and ends with a mark, which is what the code decodes.             *)
(***************************************************************************)
EXTENDS Integers

CONSTANTS Stored,       \* the blocks that may be read
          Built,        \* the codecs compiled into the library
          MetadataSize, \* 8192
          BlockSize     \* super.block_size

Codecs == {"gzip", "lzma", "lzo", "xz", "lz4", "zstd"}
Types == Codecs \cup {"unknown"}

\* squash_read_file checks a data block's stored size before the call.
ASSUME StoredAssumption ==
    \A b \in Stored :
        /\ b.kind \in {"metadata", "data"}
        /\ {b.compressed, b.props, b.alone} \subseteq BOOLEAN
        /\ b.room \in Nat /\ b.size \in Nat /\ b.yields \in Nat
        /\ b.kind = "data" => b.size \in 1 .. BlockSize
ASSUME BuiltAssumption == Built \subseteq Codecs
ASSUME SizesAssumption == MetadataSize \in Nat \ {0} /\ BlockSize \in Nat \ {0}

VARIABLES dec,    \* the codec of the decompressor, or "none"
          pc,
          at,     \* the block of the call
          strm,   \* avail_in, avail_out and action of the liblzma stream
          length, \* *uncompressed_size
          live,   \* allocations not yet released, by kind
          faulted,\* history: a host call or a library ran out of something
          ret

vars == <<dec, pc, at, strm, length, live, faulted, ret>>

Resources == {"decompressor", "state", "compressed", "uncompressed", "decoder"}
Taken(r) == [live EXCEPT ![r] = @ + 1]
Freed(S) == [r \in Resources |-> IF r \in S THEN live[r] - 1 ELSE live[r]]

Idle == [in |-> 0, out |-> 0, action |-> "RUN", stalled |-> FALSE]

Init ==
    /\ dec = "none" /\ pc = "closed"
    /\ at \in Stored
    /\ strm = Idle /\ length = 0
    /\ live = [r \in Resources |-> 0]
    /\ faulted = FALSE /\ ret = "none"

-----------------------------------------------------------------------------
\* Codecs whose decompressor holds a library context.
WithState == {"gzip", "lzma", "xz", "zstd"}
Context == IF dec \in WithState THEN {"state"} ELSE {}

\* squash_decompressor_create returns NULL, having released `freed'.
NoDecompressor(freed) ==
    /\ dec' = "none" /\ pc' = "closed"
    /\ live' = Freed(freed)
    /\ UNCHANGED <<at, strm, length, faulted, ret>>

Create(codec) ==
    /\ pc = "closed"
    /\ \/ /\ dec' = codec /\ pc' = "creating"
          /\ live' = Taken("decompressor")
          /\ UNCHANGED <<at, strm, length, faulted, ret>>
       \/ NoDecompressor({})

\* A type that is unknown or built without its library is refused; gzip, lzma
\* and xz then have their context to initialise, lzo its library, lz4 and zstd
\* nothing.
NewState ==
    /\ pc = "creating"
    /\ \/ /\ dec \in Built
          /\ pc' = IF dec \in {"lz4", "zstd"} THEN "ready" ELSE "starting"
          /\ live' = IF dec \in WithState THEN Taken("state") ELSE live
          /\ UNCHANGED <<dec, at, strm, length, faulted, ret>>
       \/ dec \notin Built \cap {"lzo", "lz4"} /\ NoDecompressor({"decompressor"})

\* inflateInit2, lzma_alone_decoder, lzma_stream_decoder, lzo_init
InitLibrary ==
    /\ pc = "starting"
    /\ \/ pc' = "ready" /\ UNCHANGED <<dec, at, strm, length, live, faulted, ret>>
       \/ NoDecompressor({"decompressor"} \cup Context)

\* Mutant of Destroy: the switch has no case for zstd.
DestroyForgetsZstd ==
    /\ pc = "ready"
    /\ dec' = "none" /\ pc' = "closed"
    /\ live' = Freed({"decompressor"} \cup (IF dec \in WithState \ {"zstd"} THEN {"state"} ELSE {}))
    /\ ret' = "none"
    /\ UNCHANGED <<at, strm, length, faulted>>

Destroy ==
    /\ pc = "ready"
    /\ dec' = "none" /\ pc' = "closed"
    /\ live' = Freed({"decompressor"} \cup Context)
    /\ ret' = "none"
    /\ UNCHANGED <<at, strm, length, faulted>>

-----------------------------------------------------------------------------
Call(b) ==
    /\ pc = "ready"
    /\ pc' = "bounds"
    /\ at' = b
    /\ ret' = "none" /\ faulted' = FALSE
    /\ UNCHANGED <<dec, strm, length, live>>

Go(stage) == pc' = stage /\ UNCHANGED <<dec, at, faulted, ret>>

Fail(e, freed) ==
    /\ pc' = "ready"
    /\ ret' = e
    /\ live' = Freed(freed)
    /\ strm' = Idle
    /\ UNCHANGED <<dec, at, length>>

HostFails(e, freed) == Fail(e, freed) /\ faulted' = TRUE
BlockFails(e, freed) == Fail(e, freed) /\ UNCHANGED faulted

\* What the two functions test before they allocate; the header of a
\* metadata block is part of its room.
InBounds(b) ==
    IF b.kind = "metadata"
    THEN b.size \in 1 .. MetadataSize /\ 2 + b.size <= b.room
    ELSE b.size <= b.room

Bounds ==
    /\ pc = "bounds"
    /\ \/ /\ InBounds(at)
          /\ \/ Go("stored") /\ live' = Taken("compressed") /\ UNCHANGED <<strm, length>>
             \/ HostFails("MEMORY", {})
       \/ ~InBounds(at) /\ BlockFails("INVALID_FILE", {})
       \/ at.room > 0 /\ HostFails("IO", {})

ReadStored ==
    /\ pc = "stored"
    /\ \/ Go("result") /\ UNCHANGED <<strm, length, live>>
       \/ HostFails("IO", {"compressed"})

Capacity == IF at.kind = "metadata" THEN MetadataSize ELSE BlockSize

AllocResult ==
    /\ pc = "result"
    /\ \/ /\ Go(IF at.compressed THEN "decode" ELSE "copy")
          /\ live' = Taken("uncompressed")
          /\ length' = Capacity
          /\ UNCHANGED strm
       \/ HostFails("MEMORY", {"compressed"})

\* The block is with the caller.
Deliver(n, freed) ==
    /\ pc' = "delivered" /\ ret' = "OK"
    /\ length' = n
    /\ live' = Freed(freed)
    /\ strm' = Idle
    /\ UNCHANGED <<dec, at, faulted>>

CopyStored == pc = "copy" /\ Deliver(at.size, {"compressed"})

\* Mutant of Undecoded: the branch frees the stored bytes a second time.
UndecodedFreesTwice(library) ==
    [r \in Resources |-> Freed({"compressed", "uncompressed"} \cup library)[r]
                         - (IF r = "compressed" THEN 1 ELSE 0)]

\* What is left when squash_decompress_block has failed.
Undecoded(library) == Freed({"compressed", "uncompressed"} \cup library)

DecoderFails(e, library) ==
    /\ pc' = "ready" /\ ret' = e
    /\ live' = Undecoded(library)
    /\ strm' = Idle
    /\ UNCHANGED <<dec, at, length>>

FailedByStream(library) == DecoderFails("COMPRESSION", library) /\ UNCHANGED faulted
FailedByHost(e, library) == DecoderFails(e, library) /\ faulted' = TRUE

-----------------------------------------------------------------------------
\* decompress_lzma skips the properties and nothing else, so that a length
\* behind them is taken for the beginning of the stream.
Input == IF dec = "lzma" THEN at.size - 5 ELSE at.size
NoInput == dec = "lzma" /\ at.size = 5
LengthIsDecoded == dec = "lzma" /\ at.alone
Stream ==
    IF NoInput THEN "truncated"
    ELSE IF LengthIsDecoded THEN "corrupt" ELSE at.stream
Yields == IF NoInput THEN 0 ELSE at.yields

(***************************************************************************)
(* Only gzip and xz have a checksum, so that other codecs may decode a     *)
(* damaged stream without noticing.  All but lz4 look for the end of the   *)
(* stream: a block of lz4 may end wherever a run of literals does.         *)
(***************************************************************************)
Unnoticed ==
    \/ Stream = "corrupt" /\ dec \notin {"gzip", "xz"}
    \/ Stream = "truncated" /\ dec = "lz4"

\* A decoder of one call succeeds when the stream ends and its bytes fit.
Fits == Yields <= Capacity
Decodable == Stream = "whole" /\ Fits

\* lzo, lz4, zstd: one call of the library, nothing to clean up.
DecodeAtOnce ==
    /\ pc = "decode" /\ dec \in {"lzo", "lz4", "zstd"}
    /\ \/ (Stream = "whole" \/ Unnoticed) /\ Fits /\ Deliver(Yields, {"compressed"})
       \/ ~Decodable /\ FailedByStream({})
       \/ dec = "zstd" /\ FailedByHost("COMPRESSION", {})

\* gzip, lzma and xz set up a decoder of their own for each block.
LzmaRejects == dec = "lzma" /\ (at.size < 5 \/ ~at.props)
StartDecoder ==
    /\ pc = "decode" /\ dec \in {"gzip", "lzma", "xz"}
    /\ \/ LzmaRejects /\ FailedByStream({})
       \/ /\ ~LzmaRejects
          /\ \/ /\ Go(IF dec = "gzip" THEN "inflate" ELSE dec)
                /\ live' = Taken("decoder")
                /\ strm' = [in |-> Input, out |-> Capacity, action |-> "RUN", stalled |-> FALSE]
                /\ UNCHANGED length
             \/ \E e \in {"COMPRESSION"} \cup (IF dec = "xz" THEN {"MEMORY"} ELSE {}) :
                   FailedByHost(e, {})

Inflate ==
    /\ pc = "inflate"
    /\ \/ Decodable /\ Deliver(Yields, {"compressed", "decoder"})
       \/ ~Decodable /\ FailedByStream({"decoder"})
       \/ FailedByHost("COMPRESSION", {"decoder"})

(***************************************************************************)
(* lzma_code: decodes as much as input and output allow.  It returns       *)
(* STREAM_END when it has met the end, which it may not have looked for    *)
(* when the output became full; OK otherwise, also for one call without    *)
(* progress; BUF_ERROR for the second such call in a row.                  *)
(***************************************************************************)
Left == Yields - (Capacity - strm.out)
Produced == IF Left <= strm.out THEN Left ELSE strm.out
Unread == IF Left > strm.out THEN 1 ELSE 0
Progress == Produced > 0 \/ strm.in # Unread

LzmaCode(result) ==
    \/ result = "STREAM_END" /\ (Stream = "whole" \/ Unnoticed) /\ Left <= strm.out
    \/ result = "OK" /\ Stream = "whole" /\ Left = strm.out /\ Progress
    \/ result = "DATA_ERROR" /\ Stream = "corrupt" /\ Left <= strm.out
    \/ /\ Stream # "whole" \/ Left > strm.out
       /\ result = IF ~Progress /\ strm.stalled THEN "BUF_ERROR" ELSE "OK"

Moved(action) ==
    [in |-> Unread, out |-> strm.out - Produced, action |-> action, stalled |-> ~Progress]

\* The decoder allocates its dictionary, or exceeds the limit, in its first call.
FirstCall == strm.in = Input

\* decompress_lzma: a call with RUN and, unless it met the end, one with FINISH.
LzmaStep ==
    /\ pc = "lzma"
    /\ \/ /\ LzmaCode("STREAM_END")
          /\ Deliver(Capacity - Moved("RUN").out, {"compressed", "decoder"})
       \/ /\ strm.action = "RUN" /\ LzmaCode("OK")
          /\ strm' = Moved("FINISH")
          /\ Go(pc) /\ UNCHANGED <<length, live>>
       \/ /\ strm.action = "FINISH" /\ LzmaCode("OK")
          /\ FailedByStream({"decoder"})
       \/ /\ LzmaCode("DATA_ERROR") \/ LzmaCode("BUF_ERROR")
          /\ FailedByStream({"decoder"})
       \/ FirstCall /\ FailedByHost("COMPRESSION", {"decoder"})

\* Mutant of XzGoesOn: the loop also goes on after BUF_ERROR.
XzGoesOnForever(result) == result \in {"OK", "BUF_ERROR"}

\* while (ret == LZMA_OK)
XzGoesOn(result) == result = "OK"

\* Mutant of XzStuck: a full buffer counts as no progress.
XzStuckAtFull(action) == action = "RUN" /\ Moved(action).out = 0

\* The loop's own test: finishing, and not a byte has come out so far.
XzStuck(action) == action = "FINISH" /\ Moved(action).out = length

\* Mutant of XzDone: every end of the loop but an error in the data is a success.
XzDoneAnyway(result) == result \in {"STREAM_END", "BUF_ERROR"}

XzDone(result) == result = "STREAM_END"

XzStep ==
    LET action == IF strm.in = 0 THEN "FINISH" ELSE strm.action IN
    /\ pc = "xz"
    /\ \/ \E result \in {"OK", "STREAM_END", "DATA_ERROR", "BUF_ERROR"} :
          /\ LzmaCode(result)
          /\ \/ /\ result = "OK" /\ XzStuck(action)
                /\ FailedByStream({"decoder"})
             \/ /\ XzGoesOn(result) /\ ~XzStuck(action)
                /\ strm' = Moved(action)
                /\ Go(pc) /\ UNCHANGED <<length, live>>
             \/ /\ ~XzGoesOn(result) /\ XzDone(result)
                /\ Deliver(Capacity - Moved(action).out, {"compressed", "decoder"})
             \/ /\ ~XzGoesOn(result) /\ ~XzDone(result)
                /\ FailedByStream({"decoder"})
       \/ FirstCall /\ \E e \in {"MEMORY", "COMPRESSION"} : FailedByHost(e, {"decoder"})

\* The caller has used the block and frees it.
Use ==
    /\ pc = "delivered"
    /\ pc' = "ready"
    /\ live' = Freed({"uncompressed"})
    /\ UNCHANGED <<dec, at, strm, length, faulted, ret>>

Reading ==
    \/ Bounds \/ ReadStored \/ AllocResult \/ CopyStored
    \/ DecodeAtOnce \/ StartDecoder \/ Inflate \/ LzmaStep \/ XzStep

Next ==
    \/ \E codec \in Types : Create(codec)
    \/ NewState \/ InitLibrary \/ Destroy
    \/ \E b \in Stored : Call(b)
    \/ Reading \/ Use

Spec == Init /\ [][Next]_vars

\* A read that has begun keeps running; host and library calls return.
FairSpec == Spec /\ WF_vars(Reading)

-----------------------------------------------------------------------------
TypeOK ==
    /\ dec \in Types \cup {"none"}
    /\ at \in Stored
    /\ length \in Nat
    /\ strm.in \in Nat /\ strm.out \in Nat
    /\ live \in [Resources -> Nat]

(***************************************************************************)
(* What is held at each point, hence what every failing branch and         *)
(* squash_decompressor_destroy release: the library context of the image,  *)
(* the stored bytes, the result, the decoder of one block                  *)
(* (squash_utils.c 56-104, 269-303; squash_decompressor.c 58-221).         *)
(***************************************************************************)
Decoding == pc \in {"inflate", "lzma", "xz"}
Holds(r) ==
    \/ r = "decompressor" /\ pc # "closed"
    \/ r = "state" /\ dec \in WithState /\ pc \notin {"closed", "creating"}
    \/ r = "compressed" /\ (pc \in {"stored", "result", "copy", "decode"} \/ Decoding)
    \/ r = "uncompressed" /\ (pc \in {"copy", "decode", "delivered"} \/ Decoding)
    \/ r = "decoder" /\ Decoding
HoldsExactly == live = [r \in Resources |-> IF Holds(r) THEN 1 ELSE 0]

(***************************************************************************)
(* What is returned OK is the whole block, and never longer than its       *)
(* buffer: no codec turns a stream that was cut off, that does not fit or  *)
(* that is damaged into a success (squash_decompressor.c 305-312, 389-412, *)
(* 424-432, 468-510, 521-529, 545-555), except what is PassedOver: the     *)
(* beginning of a block of lz4, damage where the codec has no checksum,    *)
(* and whatever the raw decoder makes of the length in a block of lzma.    *)
(***************************************************************************)
PassedOver ==
    \/ dec = "lz4" /\ at.stream = "truncated"
    \/ dec \in {"lz4", "lzo", "zstd", "lzma"} /\ at.stream = "corrupt"
    \/ LengthIsDecoded
OkMeansWholeBlock ==
    pc = "delivered" =>
        /\ length <= Capacity
        /\ IF at.compressed
           THEN PassedOver \/ (at.stream = "whole" /\ length = at.yields)
           ELSE length = at.size

(***************************************************************************)
(* A sound block is read when no host call fails: in particular the        *)
(* progress test of the xz loop (479) and the two calls of lzma (390, 399) *)
(* reject nothing that ends properly, a block that fills its buffer        *)
(* included.  The exception is a block of lzma that has a length, although *)
(* src/README.md 10 lists LZMA: the context made at line 102 is one for    *)
(* the .lzma format, length included; the decoder of line 376 is not.      *)
(***************************************************************************)
SoundBlock ==
    /\ InBounds(at)
    /\ at.compressed =>
          /\ at.stream = "whole" /\ at.yields <= Capacity
          /\ dec = "lzma" => at.props /\ at.size > (IF at.alone THEN 13 ELSE 5)
SoundBlockIsRead ==
    pc = "ready" /\ ret \notin {"none", "OK"} /\ SoundBlock =>
        faulted \/ (at.compressed /\ LengthIsDecoded)

(***************************************************************************)
(* Every read returns: the loop over lzma_code (468-485) ends on streams   *)
(* that stop short or do not fit.                                          *)
(***************************************************************************)
ReadReturns == pc = "bounds" ~> pc \in {"ready", "delivered"}
=============================================================================
