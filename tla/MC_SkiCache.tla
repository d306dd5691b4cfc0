---------------------------- MODULE MC_SkiCache ----------------------------
(***************************************************************************)
(* Model values for SkiCache.  The attributes are a handful of shapes     *)
(* chosen for how the remainder arithmetic of ski_registerUpdate treats   *)
(* them; every length field is computed from what the attribute carries. *)
(***************************************************************************)
EXTENDS SkiCache

MC_ASNs    == {65534, 65536 + 7}
MC_AlgoIDs == {1}
MC_SKIs    == {10, 20}

\* A Signature_Block whose length field counts its header and segments.
Blk(algo, skis, sigLen) ==
    [len |-> BlockSize([skis |-> skis, sigLen |-> sigLen]),
     algo |-> algo, skis |-> skis, sigLen |-> sigLen]

\* An attribute whose Secure_Path length is off by spDelta bytes.
Attr(ext, asns, spDelta, blocks, pad) ==
    [ext |-> ext, asns |-> asns, spLen |-> 2 + SegSize * Len(asns) + spDelta,
     blocks |-> blocks, pad |-> pad]

\* Well formed, no Signature_Block (an unsigned path).
NoBlocks     == Attr(TRUE, <<65534>>, 0, <<>>, 0)
\* Two bytes of trailing garbage after the Secure_Path.
Trailing     == Attr(TRUE, <<65534>>, 0, <<>>, 2)
\* Well formed, one block, 1-byte attribute length.
OneBlock     == Attr(FALSE, <<65534>>, 0, <<Blk(1, <<10>>, 72)>>, 0)
\* One block whose length field (513) reads as 258 on a little-endian host,
\* plus two bytes of trailing garbage.
PaddedBlock  == Attr(TRUE, <<65534>>, 0, <<Blk(1, <<10>>, 488)>>, 2)
\* Secure_Path length 2 (no segments counted) followed by 252 bytes.
ZeroSegments == Attr(TRUE, <<65534>>, -6, <<>>, 252)

\* Every combination of: extended length or not (a 1-byte length only up to
\* 255), 0-2 segments, a Secure_Path length off by -6, -1, 0 or +6 bytes,
\* 0-2 blocks of one signature size, and 0, 1, 2 or 252 trailing bytes.
Segs(n)  == SubSeq(<<65534, 65536 + 7>>, 1, n)
SkisOf(n) == SubSeq(<<10, 20>>, 1, n)
Grid ==
    { a \in { Attr(ext, Segs(n), d, [i \in 1..nb |-> Blk(1, SkisOf(n), sl)], pad) :
               ext \in BOOLEAN, n \in 0..2, d \in {-6, -1, 0, 6}, nb \in 0..2,
               sl \in {72, 488}, pad \in {0, 1, 2, 252} } :
        a.spLen >= 0 /\ (a.ext \/ AttrLen(a) <= 255) }

MC_Attributes == Grid \cup {NoBlocks, Trailing, OneBlock, PaddedBlock, ZeroSegments}

\* The well-formed unsigned path alone (one segment, no Signature_Block).
MC_Unsigned == {NoBlocks}

=============================================================================
