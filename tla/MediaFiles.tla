----------------------------- MODULE MediaFiles -----------------------------
(***************************************************************************)
(* Media files as the inspector of evidence reads them: elements that      *)
(* announce their size and may hold others.  A file is a sequence of       *)
(* units, an element is the unit of its header and the units of its        *)
(* content; what a recorder has not finished is a prefix of a recording.   *)
(***************************************************************************)
EXTENDS Integers, Sequences

Open == -1                              \* a size that was not known when the header was written
Header(id, size) == [id |-> id, size |-> size]
Data == Header("data", 0)
Part == Header("part", 0)               \* the first bytes of a header

(* What is recorded: an image, and videos whose sizes are known or not.    *)
Recordings ==
  [png      |-> <<Header("png", 2), Data, Data>>,
   mp4      |-> <<Header("ftyp", 1), Data, Header("mdat", 2), Data, Data, Header("moov", 1), Data>>,
   streamed |-> <<Header("ftyp", 0), Header("moov", 1), Data, Header("mdat", Open), Data, Data>>,
   webm     |-> <<Header("ebml", 0), Header("segment", 8), Header("info", 1), Data,
                  Header("cluster", 5), Header("group", 2), Header("block", 1), Data,
                  Header("simple", 1), Data>>,
   live     |-> <<Header("ebml", 0), Header("segment", Open), Header("cluster", Open),
                  Header("simple", 1), Data, Header("simple", 1), Data>>]

Kinds == DOMAIN Recordings

(* A recording of which `written` units are in the file, and a part of the *)
(* next, a header, when it was cut there.                                  *)
Files == {f \in [kind : Kinds, written : 0 .. 10, cut : BOOLEAN] :
            /\ f.written <= Len(Recordings[f.kind])
            /\ f.cut => /\ f.written < Len(Recordings[f.kind])
                        /\ Recordings[f.kind][f.written + 1] # Data}

Content(f) == SubSeq(Recordings[f.kind], 1, f.written) \o (IF f.cut THEN <<Part>> ELSE <<>>)
Whole(f) == f.written = Len(Recordings[f.kind])

(* Every element of a known size whose header was written is there.        *)
Finished(f) ==
  /\ ~f.cut
  /\ \A k \in 1 .. f.written :
       LET size == Recordings[f.kind][k].size IN size = Open \/ k + size <= f.written

-----------------------------------------------------------------------------
Broken == [id |-> "broken", start |-> 0, end |-> 0, open |-> FALSE]

(* readEbmlElement, and the head of an MP4 box: the element at an offset,  *)
(* up to the end of what holds it when its size is not known.              *)
Element(content, offset, limit) ==
  LET unit == content[offset + 1]
      end == IF unit.size = Open THEN limit ELSE offset + 1 + unit.size
  IN  IF unit = Part \/ end > limit THEN Broken
      ELSE [id |-> unit.id, start |-> offset + 1, end |-> end, open |-> unit.size = Open]

(* The elements from one offset to another, up to the first that is broken *)
(* or whose size may not be unknown.                                       *)
Elements(content, start, end, mayBeOpen) ==
  LET from[offset \in start .. end] ==
        IF offset = end THEN {}
        ELSE LET e == Element(content, offset, end)
             IN  IF e = Broken \/ (e.open /\ e.id \notin mayBeOpen) THEN {Broken}
                 ELSE {e} \cup from[e.end]
  IN  from[start]

Payload(e) == e.end > e.start

CompleteMp4(content) ==
  LET boxes == Elements(content, 0, Len(content), {"ftyp", "moov", "mdat"})
  IN  /\ Broken \notin boxes
      /\ {"ftyp", "moov"} \subseteq {b.id : b \in boxes}
      /\ \E b \in boxes : b.id = "mdat" /\ Payload(b)

(* A block is large enough for a frame when more than its head is there.   *)
BlockHasFrame(e) == Payload(e)

BlockGroupHasFrame(content, e) ==
  \E block \in Elements(content, e.start, e.end, {}) : block.id = "block" /\ BlockHasFrame(block)

ClusterHasPayload(content, e) ==
  LET blocks == Elements(content, e.start, e.end, {})
  IN  /\ Broken \notin blocks
      /\ \E b \in blocks : \/ b.id = "simple" /\ BlockHasFrame(b)
                           \/ b.id = "group" /\ BlockGroupHasFrame(content, b)

SegmentHasPayload(content, e) ==
  LET parts == Elements(content, e.start, e.end, {"cluster"})
  IN  /\ Broken \notin parts
      /\ \E c \in parts : c.id = "cluster" /\ ClusterHasPayload(content, c)

CompleteWebm(content) ==
  LET parts == Elements(content, 0, Len(content), {"segment"})
  IN  /\ Broken \notin parts
      /\ \E e \in parts : e.id = "ebml"
      /\ \E e \in parts : e.id = "segment" /\ SegmentHasPayload(content, e)

(* sharp decodes an image that is whole. *)
Decodes(content) ==
  LET parts == Elements(content, 0, Len(content), {}) IN content # <<>> /\ Broken \notin parts

(* What assertMediaContent asks before a video is probed. *)
Acceptable(f) ==
  CASE f.kind = "png" -> Decodes(Content(f))
    [] f.kind \in {"mp4", "streamed"} -> CompleteMp4(Content(f))
    [] f.kind \in {"webm", "live"} -> CompleteWebm(Content(f))

(* Every whole recording is accepted, and of the parts of one that is      *)
(* still being made those alone whose elements are all there.              *)
ASSUME WholeAccepted == \A f \in Files : Whole(f) => Acceptable(f)
ASSUME AcceptedFinished == \A f \in Files : Acceptable(f) => Finished(f)
=============================================================================
