---------------------------- MODULE MCMacDelegate ----------------------------
(* Instances of MacDelegate. *)
EXTENDS MacDelegate

MCInterfaces == {"en0"}

\* An adapter with a service, a cable that is not plugged in, and an address
\* in the setup.
MCSystems == {{<<"en0", "adapter">>, <<"en0", "service">>, <<"en0", "setupIP">>}}

MCChanging == {"en0"} \X Kinds

=============================================================================
