----------------------- MODULE MCServiceReportManager -----------------------
(***************************************************************************)
(* Instances of ServiceReportManager for TLC.                              *)
(***************************************************************************)
EXTENDS ServiceReportManager, TLC

\* Records, collections and workers are interchangeable; sound for the runs
\* that check safety only.
Symmetry ==
  Permutations(Records) \cup Permutations(Batches) \cup Permutations(Workers)

\* For the liveness runs, where symmetry is not sound: the pool hands out the
\* first free collection.
FirstFree ==
  m_recv' # m_recv => m_recv' = CHOOSE b \in m_data_pool : TRUE

\* For srm_stop, with as few collections as there are: the last of the posts that
\* stop() waits for may fail after its answer.
LateAtLast ==
  late_count' # late_count =>
    main_pc = "drain" /\ m_works = <<>> /\ \A w \in Workers : work_pc'[w] \in {"idle", "retry"}

\* What happens after stop() has begun is of no matter to a property that is
\* about records before stop().
BeforeStop == main_pc \in {"start", "up"}
=============================================================================
