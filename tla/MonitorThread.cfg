CONSTANTS
  Main = Main
  Monitors = {m1, m2, m3}
  Nobody = Nobody
SPECIFICATION HandshakeSpec
INVARIANTS TeardownAfterExit
PROPERTIES DestroyReturns KeepsSampling
