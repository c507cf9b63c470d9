------------------------------ MODULE Security ------------------------------
(***************************************************************************)
(* The decisions of internal/security: is the security configuration       *)
(* valid, which endpoint of the server is used, can the client options be  *)
(* made.                                                                   *)
(*                                                                         *)
(* A configuration is a record [mode, policy, auth, user, cert, key]; the  *)
(* last three say whether the user name and the two files are given.  An   *)
(* endpoint is a record [mode, policy, tokens], its policy being the URI,  *)
(* any at all, as the sequence of the pieces that the names of policies    *)
(* are put together from.  The files are "missing" (at least one is not    *)
(* there), "unusable" (both are there, but are not an X.509 certificate    *)
(* with its RSA key) or "good".                                            *)
(***************************************************************************)
EXTENDS Integers, Sequences, SequencesExt

Modes == {"None", "Sign", "SignAndEncrypt"}
Policies == {"None", "Basic128Rsa15", "Basic256", "Basic256Sha256"}
AuthModes == {"Anonymous", "Username", "Certificate"}

\* ValidateCertificateFiles: without files there is nothing to validate.
ValidateCertificateFiles(sec, files) ==
  sec.cert = sec.key /\ (sec.cert => files # "missing")

ValidateAuthConfig(sec, files) ==
  /\ sec.auth \in AuthModes
  /\ sec.auth = "Username" => sec.user
  /\ sec.auth = "Certificate" => ValidateCertificateFiles(sec, files)

ValidateSecurityConfig(sec) ==
  /\ sec.mode \in Modes /\ sec.policy \in Policies
  /\ (sec.mode = "None") = (sec.policy = "None")

\* requiresCertificatesForSecurity
RequiresCertificates(sec) == sec.mode # "None" /\ sec.policy # "None"

ValidateSecurityConfigWithCertificates(sec, files) ==
  /\ ValidateSecurityConfig(sec)
  /\ RequiresCertificates(sec) =>
       sec.cert /\ sec.key /\ ValidateCertificateFiles(sec, files)

\* Manager.validateSecurityConfig
ValidConfig(sec, files) ==
  /\ ValidateAuthConfig(sec, files)
  /\ ValidateSecurityConfigWithCertificates(sec, files)

LoadCertificate(sec, files) == sec.cert /\ sec.key /\ files = "good"

-----------------------------------------------------------------------------
(* EndpointSelector.SelectEndpoint.                                        *)

NoEndpoint == [mode |-> "", policy |-> <<>>, tokens |-> {}]

\* The names of the policies in pieces: one name is a part of another.
Pieces == [Basic128Rsa15 |-> <<"Basic128Rsa15">>, Basic256 |-> <<"Basic256">>,
           Basic256Sha256 |-> <<"Basic256", "Sha256">>]

\* A URI matches when it contains the configured name, wherever that is, and
\* for None when it is empty or ends in #None.
PolicyMatch(wanted, uri) ==
  \/ wanted = "None" /\ (uri = <<>> \/ IsSuffix(<<"#", "None">>, uri))
  \/ wanted # "None" /\ Pieces[wanted] \in SubSeqs(uri)

\* isAuthModeSupported
AuthModeSupported(sec, ep) == sec.auth \in AuthModes /\ sec.auth \in ep.tokens

FirstOf(eps, indices) ==
  IF indices = {} THEN NoEndpoint
  ELSE eps[CHOOSE i \in indices : \A j \in indices : i <= j]

ExactMatches(sec, eps) ==
  {i \in DOMAIN eps : /\ AuthModeSupported(sec, eps[i])
                      /\ eps[i].mode = sec.mode
                      /\ PolicyMatch(sec.policy, eps[i].policy)}

\* For an anonymous session without security any policy will do.
FallbackMatches(sec, eps) ==
  {i \in DOMAIN eps : /\ sec.auth = "Anonymous" /\ sec.mode = "None"
                      /\ AuthModeSupported(sec, eps[i])
                      /\ eps[i].mode = "None"}

\* Mutant: the mode of an endpoint is not looked at.
SelectAnyMode(sec, eps) ==
  FirstOf(eps, {i \in DOMAIN eps : AuthModeSupported(sec, eps[i])})

\* Mutant: the tokens of an endpoint are not looked at.
SelectAnyToken(sec, eps) ==
  FirstOf(eps, {i \in DOMAIN eps :
                  /\ eps[i].mode = sec.mode
                  /\ PolicyMatch(sec.policy, eps[i].policy)})

SelectEndpoint(sec, eps) ==
  IF ExactMatches(sec, eps) # {} THEN FirstOf(eps, ExactMatches(sec, eps))
  ELSE FirstOf(eps, FallbackMatches(sec, eps))

-----------------------------------------------------------------------------
(* The client options.                                                     *)
(* They say who the user is and which certificates have been loaded, that  *)
(* of the "user" and that of the secure "channel".                         *)

\* CreateInsecureClientOptions
InsecureOptionsMade(sec, files) ==
  sec.auth = "Certificate" => LoadCertificate(sec, files)

InsecureOptions(sec, files) ==
  [token |-> sec.auth,
   certs |-> {c \in {"user"} :
                sec.auth = "Certificate" /\ LoadCertificate(sec, files)}]

\* getUserTokenTypeForAuth
UserTokenFound(sec, ep) == sec.auth \in AuthModes /\ sec.auth \in ep.tokens

\* Mutant: a certificate that cannot be loaded is left out.
SecureOptionsAnyFiles(sec, ep, files) == UserTokenFound(sec, ep)

\* CreateSecureClientOptions: the certificate is loaded for certificate
\* authentication and, whenever both files are given, for the secure channel.
SecureOptionsMade(sec, ep, files) ==
  /\ UserTokenFound(sec, ep)
  /\ sec.auth = "Certificate" \/ (sec.cert /\ sec.key) =>
       LoadCertificate(sec, files)

SecureOptions(sec, files) ==
  [token |-> sec.auth,
   certs |-> {c \in {"user", "channel"} :
                /\ LoadCertificate(sec, files)
                /\ c = "user" => sec.auth = "Certificate"}]
=============================================================================
