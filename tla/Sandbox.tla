------------------------------ MODULE Sandbox ------------------------------
(***************************************************************************)
(* Where candidate code executes (sandbox.py).  A host is what the probes  *)
(* of one call of plan() meet: they ask again every time, so two calls may *)
(* meet different hosts.  The images a run may use are named by a pin: a   *)
(* digest, a moving tag, or none; "stock" is the digest-pinned default.    *)
(***************************************************************************)
EXTENDS FiniteSets

Engines == {"podman", "docker"}
Backends == Engines \cup {"bubblewrap"}
Pins == {"none", "tag", "digest"}

(* What a probe of each kind may find: the backends whose binary answers,  *)
(* the engines that have the image, the backends that print the marker of  *)
(* a trivial command.                                                      *)
Usable == SUBSET Backends
ImagePresent == SUBSET Engines
ProbeBackend == SUBSET Backends

(* wanted: JITTEST_SANDBOX_BACKEND. *)
Hosts == [answering : Usable, present : ImagePresent, starting : ProbeBackend,
          wanted : {"any", "none"} \cup Backends]

(* base, head: what the pyproject of each revision pins; env:              *)
(* JITTEST_RUNTIME_IMAGE.                                                  *)
Pinnings == [base : Pins \cup {"unreadable"}, head : Pins, env : Pins]

(* load_runtime_image with a base revision (Rule 2): the base decides, the *)
(* environment when it says nothing, and the head never.                   *)
Image(by, pin) == [by |-> by, pin |-> pin]
StockImage == Image("stock", "digest")

(* Mutant of LoadRuntimeImage: the head's pin counts when the base has none. *)
LoadHeadImage(pins) ==
  CASE pins.base \in {"tag", "digest"}                              -> Image("base", pins.base)
    [] pins.base \in {"none", "unreadable"} /\ pins.head # "none"   -> Image("head", pins.head)
    [] pins.base \in {"none", "unreadable"} /\ pins.head = "none"   -> StockImage

LoadRuntimeImage(pins) ==
  CASE pins.base \in {"tag", "digest"}                              -> Image("base", pins.base)
    [] pins.base \in {"none", "unreadable"} /\ pins.env # "none"    -> Image("env", pins.env)
    [] pins.base \in {"none", "unreadable"} /\ pins.env = "none"    -> StockImage

(* validate_image_ref: tags are refused because they move. *)
ValidateImageRef(image) == image.pin = "digest"

(* detect_backend: podman before docker before bubblewrap, or the one the  *)
(* environment wants.                                                      *)
DetectBackend(host) ==
  LET usable == {b \in host.answering : host.wanted \in {"any", b}}
  IN  CASE "podman" \in usable                          -> "podman"
        [] usable \cap Engines = {"docker"}             -> "docker"
        [] usable = {"bubblewrap"}                      -> "bubblewrap"
        [] usable = {}                                  -> "none"

(* detect_backend("bubblewrap"): what the environment wants is overruled,  *)
(* unless it wants none.                                                   *)
BubblewrapUsable(host) == "bubblewrap" \in host.answering /\ host.wanted # "none"

Refusal == [refused |-> TRUE, backend |-> "none"]
Planned(backend) == [refused |-> FALSE, backend |-> backend]

(* Mutant of Degraded: required runs unconfined, as auto does. *)
DegradedAlways(mode) == Planned("none")

(* Without a usable backend: required raises, auto runs unconfined. *)
Degraded(mode) == IF mode = "required" THEN Refusal ELSE Planned("none")

(* The backend left once the image is looked at: an image that is not      *)
(* pinned is never run; one that auto would have to pull is not pulled.    *)
Admitted(mode, host, image) ==
  LET first == DetectBackend(host)
      refuses == /\ first \in Engines
                 /\ \/ ~ValidateImageRef(image)
                    \/ mode = "auto" /\ first \notin host.present
  IN  IF ~refuses THEN first
      ELSE IF mode = "auto" /\ BubblewrapUsable(host) THEN "bubblewrap" ELSE "none"

(* plan; with a probe, a backend that does not start counts as none. *)
PlanSandbox(mode, host, image, probe) ==
  LET backend == Admitted(mode, host, image)
  IN  IF mode = "off" THEN Planned("none")
      ELSE IF backend = "none" \/ (probe /\ backend \notin host.starting) THEN Degraded(mode)
      ELSE Planned(backend)

(* What a wrapped command runs in: whose image, whether there is a         *)
(* network, and what of the host it can write.                             *)
OnTheHost == [image |-> "none", network |-> TRUE, writes |-> {"checkout", "host"}]
WrapContainer(image) == [image |-> image.by, network |-> FALSE, writes |-> {"checkout"}]
WrapBwrap == [image |-> "none", network |-> FALSE, writes |-> {"checkout"}]
Wrap(backend, image) ==
  CASE backend = "none"         -> OnTheHost
    [] backend \in Engines      -> WrapContainer(image)
    [] backend = "bubblewrap"   -> WrapBwrap
=============================================================================
