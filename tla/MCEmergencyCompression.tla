----------------------- MODULE MCEmergencyCompression -----------------------
(* TLC instance of EmergencyCompression: two engines of one session, one of *)
(* which meets faults. The two messages are interchangeable, the engines    *)
(* are not; a liveness property is checked, so symmetry is not used.        *)
EXTENDS EmergencyCompression

=============================================================================
