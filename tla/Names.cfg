SPECIFICATION Spec
CONSTANTS
  Letters = {"a", "b"}
  NonGraphic = {"#"}
  MAX_DOMAIN_LEN = 4
  MAX_LABEL_OR_ROLE_LEN = 3
  SELF_SIGNED_TRUST_DOMAIN <- MCTrustDomain
  SPIFFE <- a
  OPERATOR <- a
  PUBLISHER <- a
  WORKLOAD <- a
  Operators <- MCOperators
  Policies <- MCPolicies
  TcaSans <- MCTcaSans
INVARIANTS
  AdmitsHostNames
  NameIdentifies
  NamedByItsIssuer
  TrustDomainExact
