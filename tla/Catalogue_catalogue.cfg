SPECIFICATION CatalogueSpec
CONSTANTS
  None = None
  Torn = Torn
  Absent = Absent
  Processes = {p1, p2}
  Instruments <- MCInstruments
  Timeframes = {"1h"}
  Normals <- MCNormals
  Agendas <- MCAgendas
  Ids <- MCIds
  Texts <- MCTexts
  InitialSettings <- MCSettings
  InitialYaml <- MCYaml
  InitialOverrides <- MCOverrides
  EnvKeys = {"TINKOFF_TOKEN", "TWELVEDATA_TOKEN", "DATABASE_URL"}
SYMMETRY Symmetric
INVARIANTS
  SavesSurvive
  SettingsStayValid
  OverridesFit
