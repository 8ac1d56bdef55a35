-------------------------- MODULE MCClientLifetime --------------------------
(* Configurations that are complete, that rely on the defaults, and that are *)
(* refused.                                                                   *)
EXTENDS ClientLifetime, TLC

Config(account, instance, nameSpace, logs) ==
  [accountId |-> account, instanceId |-> instance, nameSpace |-> nameSpace,
   logCallbackFn |-> logs]

MCConfigs ==
  {Config("account", NoValue, NoValue, TRUE), Config("account", "instance", "windows", FALSE),
   Config("account", "instance", "", TRUE), Config("", NoValue, "windows", FALSE)}

MCFeatures == {"SSL", "THREADSAFE"}

MCSymmetry == Permutations(Clients)

=============================================================================
