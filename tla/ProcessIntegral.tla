-------------------------- MODULE ProcessIntegral --------------------------
(***************************************************************************)
(* The count mode of the FrameProcessor plugin: LATRDProcessIntegral and   *)
(* the LATRDImageJob objects it stores.                                    *)
(*                                                                         *)
(* The packets of an image arrive in any order and images interleave; the  *)
(* word that ends an image tells which packet is the last.  An image is    *)
(* sent when no packet before the last is missing, and an idle frame sends *)
(* what is left.  A stored image is deleted only while it is the first.    *)
(*                                                                         *)
(* A packet is told by its image and number.  The counts of a packet are   *)
(* added to the pixels or not, so the pixels are how often each packet was *)
(* added.  A packet without a pixel word adds nothing and is not recorded. *)
(***************************************************************************)
EXTENDS Integers, Sequences, FiniteSets, SequencesExt

CONSTANTS
  LastPacket,        (* image number -> number of its last packet             *)
  Blank,             (* packets without a pixel word                          *)
  MaxCopies          (* bound: how often the network delivers a packet        *)

(* Images have numbers, and at least one packet.                             *)
ASSUME CountAssumption == DOMAIN LastPacket \subseteq Nat /\ LastPacket \in [DOMAIN LastPacket -> Nat]

VARIABLES
  images,            (* image_store_                                          *)
  imagesSent,        (* history: images pushed in this acquisition            *)
  counted,           (* history: how often each packet was taken in it        *)
  counting           (* history: no idle frame has ended it                   *)

integral == <<images, imagesSent, counted, counting>>

Packets == UNION {{[image |-> i, id |-> n] : n \in 0..LastPacket[i]} : i \in DOMAIN LastPacket}

IntegralInit ==
  /\ images = [i \in {} |-> {}]
  /\ imagesSent = <<>>
  /\ counted = [p \in Packets |-> 0]
  /\ counting = FALSE
-----------------------------------------------------------------------------
(* LATRDImageJob                                                             *)

NewImage(i) ==
  [eoi |-> -1, ids |-> {}, pixels |-> [n \in 0..LastPacket[i] |-> 0], sent |-> FALSE]

WithPixels(job, p) ==
  IF p \in Blank THEN job
  ELSE [job EXCEPT !.pixels[p.id] = @ + 1, !.ids = @ \cup {p.id}]

WithEnd(job, p) == IF p.id = LastPacket[p.image] THEN [job EXCEPT !.eoi = p.id] ELSE job

VerifiedButOne(job) == job.eoi # -1 /\ 0..job.eoi-2 \subseteq job.ids  \* mutant: off by one
Verified(job) == job.eoi # -1 /\ 0..job.eoi-1 \subseteq job.ids

ImageFrame(i, job) == [number |-> i, pixels |-> job.pixels]
-----------------------------------------------------------------------------
(* process_frame.  The images of a frame are pushed in order of number.      *)

Stored(store, p) ==
  LET job == IF p.image \in DOMAIN store THEN store[p.image] ELSE NewImage(p.image)
  IN [i \in DOMAIN store \cup {p.image} |->
        IF i = p.image THEN WithEnd(WithPixels(job, p), p) ELSE store[i]]

Complete(store) == {i \in DOMAIN store : Verified(store[i])}
Unsent(store) == {i \in DOMAIN store : ~store[i].sent}

InTurn(numbers) ==
  {order \in [1..Cardinality(numbers) -> numbers] :
     \A m, n \in DOMAIN order : m < n => order[m] < order[n]}
AsFrames(store, order) == [n \in DOMAIN order |-> ImageFrame(order[n], store[order[n]])]
SentBefore == IF counting THEN imagesSent ELSE <<>>
SendImages(store, numbers) ==
  \E order \in InTurn(numbers) : imagesSent' = SentBefore \o AsFrames(store, order)

Marked(store, numbers) ==
  [i \in DOMAIN store |-> IF i \in numbers THEN [store[i] EXCEPT !.sent = TRUE] ELSE store[i]]

(* Images are deleted in order as long as the first is to be deleted.        *)
Deleted(store) ==
  {i \in Complete(store) : \A k \in DOMAIN store : k <= i => k \in Complete(store)}

CountFrame(packets) ==
  LET store == FoldLeft(Stored, images, packets)
      numbers == Complete(store) \cap Unsent(store)
  IN /\ images' = [i \in DOMAIN store \ Deleted(store) |-> Marked(store, numbers)[i]]
     /\ SendImages(store, numbers)

FlushesComplete(store) == Unsent(store) \cap Complete(store)  \* mutant: incomplete images dropped
FlushedByIdle(store) == Unsent(store)

CountIdle ==
  /\ images' = [i \in {} |-> {}]
  /\ SendImages(images, FlushedByIdle(images))
-----------------------------------------------------------------------------
(* What the network delivers: the packets of a frame, each at most MaxCopies *)
(* times in an acquisition, in any order, with any of them lost.             *)

CountedBefore == IF counting THEN counted ELSE [p \in Packets |-> 0]
Copies(packets, p) == Cardinality({n \in DOMAIN packets : packets[n] = p})

TakeCounts(packets) ==
  /\ \A p \in Packets : CountedBefore[p] + Copies(packets, p) <= MaxCopies
  /\ counted' = [p \in Packets |-> CountedBefore[p] + Copies(packets, p)]
  /\ counting' = TRUE
  /\ CountFrame(packets)

EndCounts ==
  /\ counting' = FALSE
  /\ counted' = CountedBefore
  /\ CountIdle
=============================================================================
