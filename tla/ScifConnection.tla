---------------------------- MODULE ScifConnection ----------------------------
(***************************************************************************)
(* How the two ends of a ring buffer across PCIe find each other           *)
(* (pci-ring-buffer/lib/ring_buffer_scif.c).  The master owns the memory;  *)
(* the shadow, on the other side of the bus, maps it.  They make one SCIF  *)
(* connection per DMA channel, one after the other; over each the master   *)
(* sends what the shadow needs to know.  Any SCIF call may fail.           *)
(***************************************************************************)
EXTENDS Integers

CONSTANTS
  Channels,    \* RING_BUFFER_SCIF_NUM_DMA_CHANNEL
  Faults,      \* FALSE: SCIF and mmap calls fail only for lack of a peer
  Blockings    \* values of is_blocking at the creation of the master

ASSUME ChannelsAssumption == Channels \in Nat \ {0}
ASSUME FaultsAssumption == Faults \in BOOLEAN
ASSUME BlockingsAssumption == Blockings \subseteq BOOLEAN

Ends == {"master", "shadow"}
Other(e) == IF e = "master" THEN "shadow" ELSE "master"

VARIABLES
  producer,    \* the end of type RING_BUFFER_SCIF_PRODUCER
  blocking,    \* is_blocking, which the shadow takes over from the master
  compatible,  \* both ends report the same compatibility vector
  status,      \* wait_status of the master
  at,          \* where each end is
  channel,     \* the channel each end works on
  link,        \* how far the connection of each channel has come
  open         \* the endpoints each end holds open

connection ==
  <<producer, blocking, compatible, status, at, channel, link, open>>

(* A master can be used as soon as it is created, a shadow when it is.     *)
ConnectionInit ==
  /\ producer \in Ends
  /\ blocking \in Blockings
  /\ compatible \in BOOLEAN
  /\ status = "EAGAIN"
  /\ at = [master |-> "created", shadow |-> "absent"]
  /\ channel = [e \in Ends |-> 1]
  /\ link = [c \in 1 .. Channels |-> "none"]
  /\ open = [e \in Ends |-> {}]

Go(e, place) == at' = [at EXCEPT ![e] = place]
LinkTo(c, how) == link' = [link EXCEPT ![c] = how]
Open(e, c) == open' = [open EXCEPT ![e] = @ \cup {c}]

(* The next channel, or the end of the loop over them. *)
Advance(e, again, end) ==
  IF channel[e] < Channels
  THEN channel' = [channel EXCEPT ![e] = @ + 1] /\ Go(e, again)
  ELSE UNCHANGED channel /\ Go(e, end)

Usable(e) ==
  \/ e = "master" /\ at[e] # "gone"
  \/ e = "shadow" /\ at[e] = "ready"

-------------------------------------------------------------------------------
(* ring_buffer_scif_wait_for_shadow opens the server endpoint and runs, in *)
(* the caller or in a thread of its own, __wait_for_shadow.                *)
WaitForShadow ==
  /\ at["master"] = "created"
  /\ Go("master", "accepting")
  /\ UNCHANGED <<producer, blocking, compatible, status, channel, link, open>>

Accept ==
  LET c == channel["master"] IN
  /\ at["master"] = "accepting"
  /\ link[c] = "requested"
  /\ LinkTo(c, "accepted")
  /\ Open("master", c)
  /\ Go("master", "offering")
  /\ UNCHANGED <<producer, blocking, compatible, status, channel>>

(* The memory is registered for the channel and described to the shadow.   *)
Offer ==
  LET c == channel["master"] IN
  /\ at["master"] = "offering"
  /\ LinkTo(c, "offered")
  /\ Advance("master", "accepting", "waited")
  /\ status' = IF c = Channels THEN "connected" ELSE status
  /\ UNCHANGED <<producer, blocking, compatible, open>>

WaitFails ==
  /\ Faults
  /\ at["master"] \in {"accepting", "offering"}
  /\ status' = "failed"
  /\ Go("master", "waited")
  /\ UNCHANGED <<producer, blocking, compatible, channel, link, open>>

-------------------------------------------------------------------------------
(* __ring_buffer_scif_create_shadow: connect, then receive the offer.      *)
Listening == at["master"] \notin {"created", "gone"}

Connect ==
  LET c == channel["shadow"] IN
  /\ at["shadow"] \in {"absent", "connecting"}
  /\ Listening
  /\ LinkTo(c, "requested")
  /\ Open("shadow", c)
  /\ Go("shadow", "receiving")
  /\ UNCHANGED <<producer, blocking, compatible, status, channel>>

Receive ==
  LET c == channel["shadow"] IN
  /\ at["shadow"] = "receiving"
  /\ link[c] = "offered"
  /\ compatible
  /\ LinkTo(c, "received")
  /\ Advance("shadow", "connecting", "mapping")
  /\ UNCHANGED <<producer, blocking, compatible, status, open>>

(* After an error the half made shadow is destroyed; destroy_shadow closes *)
(* an endpoint only where scif_open had failed, so all of them stay open.  *)
CreateFails ==
  LET c == channel["shadow"] IN
  /\ \/ at["shadow"] = "connecting" /\ (Faults \/ ~Listening)
     \/ at["shadow"] = "receiving" /\ (Faults \/ at["master"] = "gone")
     \/ at["shadow"] = "receiving" /\ link[c] = "offered" /\ ~compatible
  /\ Go("shadow", "gone")
  /\ UNCHANGED <<producer, blocking, compatible, status, channel, link, open>>

(* _rbs_mmap maps the memory twice, one half through channel 1 and one     *)
(* through channel 2, retrying when another thread takes the range between *)
(* two calls.  It reports failure by NULL, which the caller does not take  *)
(* for one: the shadow's process dies on the first access.                 *)
MapFails ==
  /\ Faults
  /\ at["shadow"] = "mapping"
  /\ Go("shadow", "gone")
  /\ open' = [open EXCEPT !["shadow"] = {}]
  /\ UNCHANGED <<producer, blocking, compatible, status, channel, link>>

Mapped ==
  /\ at["shadow"] = "mapping"
  /\ Go("shadow", "ready")
  /\ UNCHANGED <<producer, blocking, compatible, status, channel, link, open>>

-------------------------------------------------------------------------------
DestroyMaster ==
  /\ at["master"] \in {"created", "waited"}
  /\ Go("master", "gone")
  /\ open' = [open EXCEPT !["master"] = {}]
  /\ UNCHANGED <<producer, blocking, compatible, status, channel, link>>

DestroyShadow ==
  /\ at["shadow"] = "ready"
  /\ Go("shadow", "gone")
  /\ UNCHANGED <<producer, blocking, compatible, status, channel, link, open>>

(* The process of an end may end at any time; the system closes what it    *)
(* held open.                                                              *)
ProcessEnds(e) ==
  /\ at[e] # "absent"
  /\ at[e] = "gone" => open[e] # {}
  /\ Go(e, "gone")
  /\ open' = [open EXCEPT ![e] = {}]
  /\ UNCHANGED <<producer, blocking, compatible, status, channel, link>>

(* The first channel has an endpoint at both ends. *)
Linked == 1 \in open["master"] /\ 1 \in open["shadow"]

(* _rbs_is_healthy receives from the first channel, unless the wait for    *)
(* the shadow has no outcome yet.                                          *)
AlwaysHealthy(e) == TRUE   \* mutant: the result of scif_recv is ignored

IsHealthy(e) == (e = "master" /\ status = "EAGAIN") \/ Linked

Handshake ==
  \/ WaitForShadow \/ Accept \/ Offer \/ WaitFails
  \/ Connect \/ Receive \/ CreateFails \/ MapFails
===============================================================================
