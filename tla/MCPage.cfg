SPECIFICATION Spec
CONSTANTS
  Keys = {"tutorial", "music", "voice"}
  Tracks = {t1}
  Sounds = {s1, s2}
  Channels <- MCChannels
  Texts = {"welcome", "mission"}
  Sentences <- MCSentences
  SubtitleTime = 1
  MaxSubtitles = 2
INVARIANTS
  HeardAsAsked
  WaveIsWhole
PROPERTIES
  SettingsSurvive
  Loaded
