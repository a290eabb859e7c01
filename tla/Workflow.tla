------------------------------ MODULE Workflow ------------------------------
(***************************************************************************)
(* What a camera adapter can be asked for (adapter/comfy.rs, the gate in   *)
(* worker/runtime/execution.rs): the adapter file binds inputs of a        *)
(* ComfyUI workflow to names, a job wants some of them set.                *)
(***************************************************************************)
EXTENDS Integers

CONSTANTS
    Adapter,   \* the adapter file and the workflow it names
    ComfyUI    \* what the installed ComfyUI answers to /object_info

Operation == {"t2v", "i2v", "flf2v", "r2v"}
Input == {"first_frame", "last_frame", "reference_images", "reference_video"}

Dynamic == {"reference_images", "reference_video"}
Profile == {"audition", "final"}
Helper == {"LoadImage", "LoadVideo", "GetVideoComponents"}

\* `intact' says that the workflow can be read and has every node and input the
\* file binds, `bound' holds the optional inputs it binds, `target' the workflow
\* input a dynamic binding names.  Each profile the file configures sets some
\* inputs.  `verified' holds the operations recorded as smoke-tested.
AdapterConfig ==
    [enabled : BOOLEAN, intact : BOOLEAN, bound : SUBSET Input,
     target : [Dynamic -> {"ref_images", "ref_videos", "other"}],
     profiles : UNION {[P -> SUBSET Input] : P \in SUBSET Profile},
     verified : SUBSET Operation, unit : {"seconds", "frames"}]

\* `nodes' says that every node and input the workflow uses is installed,
\* `autogrow' holds the dynamic inputs it reports no other schema of than H3's.
ComfyConfig ==
    [reachable : BOOLEAN, nodes : BOOLEAN, helpers : SUBSET Helper, autogrow : SUBSET Dynamic]

ASSUME AdapterAssumption == Adapter \in AdapterConfig
ASSUME ComfyAssumption   == ComfyUI \in ComfyConfig

\* A contract's shot: its operation, what conditions it, the profile of the
\* job, and the shot's length.
Request == [operation : Operation, images : BOOLEAN, video : BOOLEAN, profile : Profile,
            seconds : Nat, fps : Nat]

\* ScriptBundle validation lets through: t2v without conditioning, r2v with
\* images or a video, any references beside the frames of i2v and flf2v.
Contractual(q) ==
    /\ q.operation = "t2v" => ~q.images /\ ~q.video
    /\ q.operation = "r2v" => q.images \/ q.video

-----------------------------------------------------------------------------
(* operation_bindings and the gate at enqueue and dispatch                  *)

Frames(operation) ==
    CASE operation = "i2v" -> {"first_frame"}
      [] operation = "flf2v" -> {"first_frame", "last_frame"}
      [] OTHER -> {}

\* The inputs the operation needs are bound.
Bound(operation) ==
    /\ Frames(operation) \subseteq Adapter.bound
    /\ operation = "r2v" => Adapter.bound \cap Dynamic # {}

\* adapter_fingerprint_with_policy, which looks at the files alone.
Admitted(operation, profile, allowUnverified) ==
    /\ Adapter.enabled
    /\ allowUnverified \/ operation \in Adapter.verified
    /\ profile \in DOMAIN Adapter.profiles
    /\ Bound(operation)
    /\ Adapter.intact

\* validate_dynamic_bindings
H3Input == [reference_images |-> "ref_images", reference_video |-> "ref_videos"]
Needs == [reference_images |-> {"LoadImage"},
          reference_video |-> {"LoadVideo", "GetVideoComponents"}]
DynamicValid ==
    \A name \in Adapter.bound \cap Dynamic :
        /\ Needs[name] \subseteq ComfyUI.helpers
        /\ Adapter.target[name] = H3Input[name]
        /\ name \in ComfyUI.autogrow

\* preflight and fill_operation_capabilities: what is reported of an operation.
Capability(operation) ==
    IF \/ ~Adapter.enabled \/ ~Adapter.intact
       \/ ~ComfyUI.reachable \/ ~ComfyUI.nodes \/ ~DynamicValid
         THEN "unavailable"
    ELSE IF ~Bound(operation) THEN "unsupported"
    ELSE IF operation \in Adapter.verified THEN "verified" ELSE "available_unverified"

-----------------------------------------------------------------------------
(* ComfyAdapter::prepare                                                    *)

\* The inputs the request sets, the frames of its operation, its images and,
\* for r2v alone, its video.
Wanted(q) ==
    Frames(q.operation)
      \cup (IF q.images THEN {"reference_images"} ELSE {})
      \cup (IF q.operation = "r2v" /\ q.video THEN {"reference_video"} ELSE {})

Prepares(q) ==
    /\ Adapter.enabled
    /\ Adapter.intact
    /\ Wanted(q) \subseteq Adapter.bound
    /\ "reference_video" \in Wanted(q) => Adapter.target["reference_video"] = "ref_videos"
    /\ q.profile \in DOMAIN Adapter.profiles
    /\ Adapter.profiles[q.profile] \subseteq Adapter.bound

\* The files it uploads.
Uploads(q) == Wanted(q) # {}

-----------------------------------------------------------------------------
(* h3_frame_count                                                           *)

\* The code computes in u64.  A word of 16 bits shows the same residues: 2^16
\* and 2^64 are both 1 modulo 17.  The subtraction wraps in a release build
\* (a debug build panics there).
Word == 65536
FrameCount(seconds, fps) ==
    LET estimated == IF seconds * fps < 5 THEN 5 ELSE seconds * fps
        gap == ((5 - (estimated % 17)) % Word) % 17
    IN  estimated + gap

\* What `duration_seconds' is set to.
Length(q) == IF Adapter.unit = "frames" THEN FrameCount(q.seconds, q.fps) ELSE q.seconds
=============================================================================
