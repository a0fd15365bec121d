---------------------------- MODULE MCAudioWork ----------------------------
(* Small instances of AudioWork; its constants are numbers, given by the    *)
(* configuration.                                                           *)
EXTENDS AudioWork
=============================================================================
