---------------------------- MODULE MCConnection ----------------------------
(***************************************************************************)
(* Instances of ConnectionManager.  The timed ones have two configurations *)
(* and an unlimited or short retry time; the one for the security settings *)
(* has no times to speak of, and every kind of configuration and endpoint. *)
(***************************************************************************)
EXTENDS ConnectionManager

Config(m, p, a, u, c, k) ==
  [mode |-> m, policy |-> p, auth |-> a, user |-> u, cert |-> c, key |-> k]
Endpoint(m, p, ts) == [mode |-> m, policy |-> p, tokens |-> ts]
NonePolicy == <<"#", "None">>
Basic256 == <<"#", "Basic256">>
Basic256Sha256 == <<"#", "Basic256", "Sha256">>
OtherPolicy == <<"#", "Basic256", "Other">>

Plain == Config("None", "None", "Anonymous", FALSE, FALSE, FALSE)
Signed == Config("Sign", "Basic256", "Username", TRUE, TRUE, TRUE)
MCTimedConfigs == {Plain, Signed}
MCTimedLists ==
  {<<>>, <<Endpoint("Sign", Basic256, {"Username"})>>}
MCCallTimes == {0, 30}

MCConfigs ==
  MCTimedConfigs \cup
  {Config("None", "None", "Username", u, FALSE, FALSE) : u \in BOOLEAN} \cup
  {Config("Sign", "Basic256Sha256", "Username", TRUE, c, k) :
     c, k \in BOOLEAN} \cup
  {Config("SignAndEncrypt", "Basic256Sha256", "Certificate", FALSE, TRUE,
          TRUE),
   Config("None", "None", "Certificate", FALSE, FALSE, FALSE),
   Config("None", "Basic256", "Anonymous", FALSE, FALSE, FALSE),
   Config("Sign", "None", "Anonymous", FALSE, TRUE, TRUE),
   Config("None", "None", "", FALSE, FALSE, FALSE),
   Config("Sign", "Basic256Sha256", "Anonymous", FALSE, TRUE, TRUE)}

Endpoints ==
  {Endpoint("None", NonePolicy, {"Anonymous", "Username"}),
   Endpoint("None", <<>>, {"Username", "Certificate"}),
   Endpoint("Sign", Basic256Sha256, {"Anonymous", "Username"}),
   Endpoint("Sign", Basic256, {"Certificate"}),
   Endpoint("Sign", Basic256, {"Username"}),
   Endpoint("Sign", OtherPolicy, {"Username"}),
   Endpoint("SignAndEncrypt", Basic256Sha256, {"Username"}),
   Endpoint("SignAndEncrypt", Basic256Sha256, {"Certificate"})}
MCLists == UNION {[1 .. n -> Endpoints] : n \in 0 .. 2}
MCNoTime == {0}
=============================================================================
