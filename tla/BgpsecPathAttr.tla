--------------------------- MODULE BgpsecPathAttr ---------------------------
(***************************************************************************)
(* The BGPsec_PATH attribute walk at the top of ski_registerUpdate         *)
(* (ski_cache.c), as operators over an abstract attribute.                 *)
(*                                                                         *)
(* An attribute is described by what it carries, not byte by byte:        *)
(*   ext      extended-length flag (2-byte attribute length)               *)
(*   asns     the Secure_Path segments' ASNs                                *)
(*   spLen    the Secure_Path length field as sent                          *)
(*   blocks   the Signature_Blocks: declared length, algorithm id, the     *)
(*            SKI of every segment and the signature length of each       *)
(*   pad      bytes after the last block that the attribute length covers *)
(* The attribute length field is the attribute's true size, so the buffer *)
(* always holds what the length says.  The walk reads 16-bit fields as a  *)
(* u_int16_t with remainder arithmetic modulo 2^16, exactly as the C does. *)
(***************************************************************************)
EXTENDS Integers, Sequences, SequencesExt

\* Sizes fixed by the wire format.
SegSize      == 6     \* flags, pCount, 4-byte ASN
BlockHdrSize == 3     \* 2-byte length, algorithm suite id
SigSegHdr    == 22    \* 20-byte SKI, 2-byte signature length

U16(x) == x % 65536

\* C integer division of an int, truncating toward zero.
CDiv(x, y) == IF x >= 0 THEN x \div y ELSE -((-x) \div y)

\* The value a u_int16_t read without ntohs yields on a little-endian host.
Swap16(v) == (v % 256) * 256 + v \div 256

BlockSize(b) == BlockHdrSize + Len(b.skis) * (SigSegHdr + b.sigLen)

\* Bytes of the attribute value (what the attribute length field says).
AttrLen(a) ==
    2 + SegSize * Len(a.asns)
      + FoldLeft(LAMBDA acc, b : acc + BlockSize(b), 0, a.blocks) + a.pad

\* Offset, within the attribute value, of the first Signature_Block.
FirstBlockOffset(a) == 2 + SegSize * Len(a.asns)

(***************************************************************************)
(* Reference: the attribute spec section 4.3 accepts.  The Secure_Path     *)
(* length counts itself and its segments, every block has one segment per *)
(* ASN and its length counts its header and segments, at most two blocks  *)
(* follow, and nothing is left over.                                       *)
(***************************************************************************)
WellFormed(a) ==
    /\ a.spLen = 2 + SegSize * Len(a.asns)
    /\ Len(a.blocks) <= 2
    /\ \A i \in 1..Len(a.blocks) :
          /\ a.blocks[i].len = BlockSize(a.blocks[i])
          /\ Len(a.blocks[i].skis) = Len(a.asns)
    /\ a.pad = 0

(***************************************************************************)
(* The walk of ski_registerUpdate up to "retVal = REGVAL_INVALID".         *)
(* junk is the big-endian value of the two bytes the code reads as         *)
(* sigBlocks[0]->length when no block header is where it looks (inside a  *)
(* segment or signature, or past the attribute): attacker bytes.  little   *)
(* says whether the build's host is little-endian.  The result:           *)
(*   verdict  "error" (an early return), "invalid" (no block seen), or    *)
(*            "blocks" (the signature block loop is entered)              *)
(*   n        numSegments                                                 *)
(*   aligned  sigBlocks[0] is the first real block                         *)
(*   overread a field was read past the end of the attribute               *)
(***************************************************************************)
ski_registerUpdateWalk(a, junk, little) ==
    LET r0 == IF a.ext THEN U16(AttrLen(a) - 2) ELSE U16(AttrLen(a) - 1)
        n  == CDiv(a.spLen - 2, SegSize)
        r1 == U16(r0 - 2)
        r2 == U16(r1 - SegSize * n)
        off == 2 + SegSize * n
        aligned == off = FirstBlockOffset(a) /\ a.blocks # <<>>
        be  == IF aligned THEN a.blocks[1].len ELSE junk
        raw == IF little THEN Swap16(be) ELSE be
        second == r2 > raw
        r  == IF second THEN U16(r2 - be) ELSE r2
        hdrPast == off + 2 > AttrLen(a)
        segsPast == off > AttrLen(a)
        out(v, o) == [verdict |-> v, n |-> n, aligned |-> aligned, overread |-> o]
    IN
    CASE r0 = 0           -> out("error", FALSE)
      [] r1 = 0           -> out("error", FALSE)
      [] r2 = 0           -> out("invalid", segsPast)
      [] r # 0            -> out("error", hdrPast)
      [] OTHER            -> out("blocks", hdrPast \/ segsPast)

\* Candidate junk values: any 16-bit value can sit in attacker bytes; the
\* walk only tells apart the value that zeroes the remainder from others.
JunkValues(a) ==
    LET r0 == IF a.ext THEN U16(AttrLen(a) - 2) ELSE U16(AttrLen(a) - 1)
        n  == CDiv(a.spLen - 2, SegSize)
    IN {0, U16(U16(r0 - 2) - SegSize * n)}

=============================================================================
