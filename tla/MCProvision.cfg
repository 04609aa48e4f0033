\* One plugin directory, one trust root; two installs over each other and two
\* bootstraps, each killed anywhere, while the host loads and crashes.
SPECIFICATION Spec
CONSTANTS
    Sboms <- MCSboms
    NoSbom = NoSbom
    MaxInstalls = 2
    MaxBootstraps = 2
INVARIANTS
    TypeOK
    OneInstallPerDirectory
    PairSpansOneInstall
    CredsFitResolver
