----------------------------- MODULE MCServices -----------------------------
(***************************************************************************)
(* One run for the services around the generation: the abstract job        *)
(* leases, a chapter's prompt versions, the memory of accepted chapters,   *)
(* the review rules, provider channels and model configurations.  As in    *)
(* MCWriting a behaviour exercises one of them, its subject.               *)
(***************************************************************************)
EXTENDS JobLease, PromptVersions, MemoryResources, ReviewRules, Channels, ModelConfig

VARIABLE subject

servicesVars ==
  <<subject, vars, promptVars, memoryVars, review, channelVars, configVars>>

\* no answer of a critic to review
ReviewAtRest ==
  [phase |-> "decided", gates |-> FALSE, saved |-> <<>>, verdict |-> "none",
   answer |-> [overall |-> NoScore, passed |-> {}, blocking |-> FALSE, comments |-> FALSE,
               dimensions |-> [key \in DimensionKeys |-> [form |-> "plain", score |-> NoScore]]]]

ServicesInit ==
  /\ subject \in {"lease", "prompts", "memory", "review", "channels", "models"}
  /\ Init /\ PromptInit /\ MemoryInit /\ ChannelsInit /\ ConfigInit
  /\ IF subject = "review" THEN ReviewInit ELSE review = ReviewAtRest

ServicesNext ==
  /\ UNCHANGED subject
  /\ \/ /\ subject = "lease" /\ Next
        /\ UNCHANGED <<promptVars, memoryVars, review, channelVars, configVars>>
     \/ /\ subject = "prompts" /\ PromptNext
        /\ UNCHANGED <<vars, memoryVars, review, channelVars, configVars>>
     \/ /\ subject = "memory" /\ MemoryNext
        /\ UNCHANGED <<vars, promptVars, review, channelVars, configVars>>
     \/ /\ subject = "review" /\ ReviewNext
        /\ UNCHANGED <<vars, promptVars, memoryVars, channelVars, configVars>>
     \/ /\ subject = "channels" /\ ChannelsNext
        /\ UNCHANGED <<vars, promptVars, memoryVars, review, configVars>>
     \/ /\ subject = "models" /\ ConfigNext
        /\ UNCHANGED <<vars, promptVars, memoryVars, review, channelVars>>

ServicesSpec == ServicesInit /\ [][ServicesNext]_servicesVars

\* The rows of all the services keep their types.
ServicesTypeOK ==
  /\ TypeOK /\ PromptTypeOK /\ MemoryTypeOK /\ ChannelsTypeOK /\ ConfigTypeOK
  /\ subject = "review" => ReviewTypeOK
=============================================================================
