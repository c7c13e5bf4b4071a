---------------------------- MODULE MCMountCopy ----------------------------
(* The copy on small instances.                                            *)
EXTENDS MountCopy

MCDevices == <<"sda1", "sdap1", "sda">>

=============================================================================
