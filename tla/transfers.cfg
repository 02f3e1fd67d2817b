SPECIFICATION Spec
CONSTANTS
  Wallets = {a, b}
  Delegate = d
  Officers = {k1, k2}
  NoKey = none
  Amounts = {0, 1}
  InitBalance = 1
  SpendLimits = {1}
  BLACKLIST_CAP = 1
  RuleSets = {{"WALLET_RATE_LIMITS"}, {"ZK_CREDENTIALS"}, {"ZK_COMPLIANCE"},
              {"SANCTIONS_ORACLE"}, {"TRAVEL_RULE"},
              {"SPEND_POLICY", "CONFIDENTIAL_TRANSFERS", "REQUIRE_OWNER_CONSENT"}}
  MaxSlot = 4
  LimitMaxima = {1}
  LimitWindows = {2}
  Verifiers = {k1, none}
  Issuers = {k1}
  Roots = {1, 2}
  Oracles = {k1, k2}
  Cosigners = {k1, k2}
  Lifetimes = {0, 1}
  DEFAULT_TTL_SLOTS = 2
  Stalenesses = {0, 1}
  Thresholds = {0, 1}
  Nonces = {1}
INVARIANT AllowancesHold
PROPERTIES SendersVouchedFor SanctionsOutliveStaleness
