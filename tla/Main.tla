-------------------------------- MODULE Main --------------------------------
(***************************************************************************)
(* main (main.cpp): the devices and pointers are set up, then one index is *)
(* started, the one whose call is not commented out ("select different     *)
(* indexes").  The state of the others stays as it is.  This module        *)
(* composes those that are not modelled on their own: the two LSM trees,   *)
(* the lazy-split hash, the processes of the TNC tree, its skip list and,  *)
(* of the linear and the extendible hash, the page store they share.       *)
(***************************************************************************)
EXTENDS LSMTree, NoFTLKV, LazySplitHash, TiOCSProcesses, TNCSkiplist, FlashStore

VARIABLE selected     \* the call main makes; "none" until the start is over

mainvars == <<selected, lsmvars, kvvars, lsvars, procvars, listvars, flashvars>>

\* EXHashing1 stands for LHashPort too, whose page functions are the same; of
\* TiOCSInit, bench_testing works on the index alone, which no other process sees.
Port == {"LSMTreePort", "NoFTLKVInit", "LSHashPort", "TiOCSInit", "bench_testing", "EXHashing1"}

Init ==
  /\ selected = "none"
  /\ LSMInit /\ KVInit /\ LSInit /\ ProcInit /\ ListInit /\ FlashInit

\* GlobalInitialize fails when the device cannot be opened, and main exits.
GlobalInitialize ==
  /\ selected = "none"
  /\ selected' \in Port \cup {"exited"}
  /\ UNCHANGED <<lsmvars, kvvars, lsvars, procvars, listvars, flashvars>>

RunLSMTree ==
  /\ selected = "LSMTreePort" /\ LSMNext
  /\ UNCHANGED <<selected, kvvars, lsvars, procvars, listvars, flashvars>>

RunNoFTLKV ==
  /\ selected = "NoFTLKVInit" /\ KVNext
  /\ UNCHANGED <<selected, lsmvars, lsvars, procvars, listvars, flashvars>>

RunLSHash ==
  /\ selected = "LSHashPort" /\ LSNext
  /\ UNCHANGED <<selected, lsmvars, kvvars, procvars, listvars, flashvars>>

RunTiOCS ==
  /\ selected = "TiOCSInit" /\ ProcNext
  /\ UNCHANGED <<selected, lsmvars, kvvars, lsvars, listvars, flashvars>>

RunIndex ==
  /\ selected = "bench_testing" /\ ListNext
  /\ UNCHANGED <<selected, lsmvars, kvvars, lsvars, procvars, flashvars>>

RunHash ==
  /\ selected = "EXHashing1" /\ FlashNext
  /\ UNCHANGED <<selected, lsmvars, kvvars, lsvars, procvars, listvars>>

Next ==
  \/ GlobalInitialize
  \/ RunLSMTree \/ RunNoFTLKV \/ RunLSHash \/ RunTiOCS \/ RunIndex \/ RunHash

Spec == Init /\ [][Next]_mainvars /\ ProcFairness

\* The state of each part is well formed.
TypeOK ==
  /\ selected \in Port \cup {"none", "exited"}
  /\ LSMTypeOK /\ KVTypeOK /\ LSTypeOK /\ ProcTypeOK /\ ListTypeOK /\ FlashTypeOK
=============================================================================
