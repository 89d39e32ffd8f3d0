-------------------------- MODULE MCProcessRunner --------------------------
EXTENDS ProcessRunner

Job(runner, platform, marker, systemRoot) ==
    [runner |-> runner, platform |-> platform, marker |-> marker, systemRoot |-> systemRoot]

(* Both runners on both platforms, the capture with and without a marker. *)
MCJobs ==
    {Job("isolated", platform, FALSE, root) : platform \in {"posix", "win32"}, root \in BOOLEAN}
      \cup {Job("capture", platform, marker, TRUE) :
              platform \in {"posix", "win32"}, marker \in BOOLEAN}
=============================================================================
