------------------------------ MODULE MCBodies ------------------------------
(***************************************************************************)
(* Bodies over the small package.                                          *)
(***************************************************************************)
EXTENDS BodyRuns, SmallBodies

\* The LETs keep TLC's coverage from unfolding a set at every use of its name.
MCEnv == LET env == SmallEnv IN env
MCPatterns == LET patterns == SmallPatterns IN patterns
MCFamilies == LET families == SmallFamilies IN families

\* `?` in an initialiser.
MCQuestions == {Sequences}

=============================================================================
