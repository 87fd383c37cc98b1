SPECIFICATION CookieSpec
CONSTANTS
    Servers = {s1, s2}
    Mode = "enforce"
    Modulus = 16
    maxAgeSeconds = 3
    maxFutureSeconds = 1
    MaxSkew = 1
    Wait = 4
    Addresses = {ip1, ip2}
    Start = 12
    End = 20
SYMMETRY CookieSymmetry
INVARIANTS WindowIsExact AcceptedEverywhere
PROPERTIES EnforcedOverUDP
