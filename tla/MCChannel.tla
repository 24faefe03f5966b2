---- MODULE MCChannel ----
(***************************************************************************)
(* The channel and the shared-memory structures beside it for the model    *)
(* checker.  None of the four touches another's state, so one run checks   *)
(* them side by side: "subject" names the one that moves.                  *)
(***************************************************************************)
EXTENDS Channel, LockFreeQueue, Seqlock, Reclamation

VARIABLE subject

SharedInit ==
  /\ Init /\ RingInit /\ SeqlockInit /\ EbrInit
  /\ subject \in {"channel", "ring", "seqlock", "ebr"}

SharedNext ==
  /\ UNCHANGED subject
  /\ \/ subject = "channel" /\ Next /\ UNCHANGED <<ringVars, seqlockVars, ebrVars>>
     \/ subject = "ring" /\ RingNext /\ UNCHANGED <<vars, seqlockVars, ebrVars>>
     \/ subject = "seqlock" /\ SeqlockNext /\ UNCHANGED <<vars, ringVars, ebrVars>>
     \/ subject = "ebr" /\ EbrNext /\ UNCHANGED <<vars, ringVars, seqlockVars>>

\* The fairness of FairSpec and of EbrFairness, each while its component moves.
SharedFairness ==
  /\ \A h \in ChannelHandles : WF_vars(subject = "channel" /\ TryRecv(h))
  /\ \A p \in Permits :
       WF_vars(subject = "channel" /\ (PermitAbort(p) \/ \E v \in Values : PermitSend(p, v)))
  /\ \A r \in EbrReaders : /\ WF_ebrVars(subject = "ebr" /\ Leave(r))
                           /\ WF_ebrVars(subject = "ebr" /\ EnterStore(r))
  /\ WF_ebrVars(subject = "ebr" /\ TryAdvance)

SharedSpec ==
  SharedInit /\ [][SharedNext]_<<vars, ringVars, seqlockVars, ebrVars, subject>> /\ SharedFairness

\* Every component keeps its variables in their ranges: the wrapping tokens, positions and
\* epochs among them.
SharedTypeOK == TypeOK /\ RingTypeOK /\ SeqlockTypeOK /\ EbrTypeOK
====
