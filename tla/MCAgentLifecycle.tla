-------------------------- MODULE MCAgentLifecycle --------------------------
(* AgentLifecycle with two classes: k stands for those that are loaded     *)
(* before the first object is constructed (Object, Class and the tracker), *)
(* c is the class of object o1.                                            *)
EXTENDS AgentLifecycle

CONSTANTS k, c, o1, th

MCClassOf == [e \in Entities |-> IF e = o1 THEN c ELSE k]
=============================================================================
