---------------------------- MODULE MCJobQueue ----------------------------
(* Two jobs and three worker ids: enough for a job to be dispatched by one *)
(* worker, taken over by a second and watched by a stalled third.          *)
EXTENDS JobQueue
=============================================================================
